---- MODULE Spec2Model ----
(***************************************************************************)
(* A model of gatsby-adapter-aws: the build manifest (header / cache-rule  *)
(* resolution and asset grouping, src/src/adapter/handler.ts), the         *)
(* CloudFront routing plan (src/src/cdk/GatsbyDistribution.ts), the        *)
(* GatsbySite construct (src/unnamed/part_011) and the adapter's adapt()   *)
(* with prepareFunction (src/src/manifest.ts, src/unnamed/part_006).       *)
(*                                                                         *)
(* Text that the code takes apart (route paths, glob patterns, file paths) *)
(* and text whose letter case matters (header names) is a sequence of      *)
(* one-character strings; text that the code only compares or copies       *)
(* (header values, content types, resource names) is a TLA+ string.        *)
(***************************************************************************)
EXTENDS Integers, Sequences, FiniteSets, Bags, TLC

VARIABLES
    routesManifest,     \* constructor input: the generator's routes
    functionsManifest,  \* constructor input: the generator's functions
    cacheControl,       \* constructor input: the caller's rule table
    manifest,           \* the constructed Manifest, or NoManifest
    gatsbyFunctions,    \* GatsbyDistribution input: the executors
    cacheBehaviorOptions, \* GatsbyDistribution input
    distributionOptions,  \* GatsbyDistribution input
    originCustomHeaders,  \* GatsbyDistribution input
    distributionProps,  \* the props handed to cloudfront.Distribution, or NoProps
    siteProps,          \* GatsbySite input: the manifest read and the props
    site,               \* the outcome of the GatsbySite constructor, or NoSite
    policyProps,        \* input of the GatsbyDistribution with disableCache
    policyDistribution, \* the props that distribution hands to CloudFront
    gatsbyDir,          \* the required files that exist under the Gatsby directory
    adapterDir,         \* the content of the .aws directory
    adaptPc,            \* the position of adapt()
    viewerRequest,      \* a request before and after a viewer-request function
    manifestJson,       \* deploy: the routes of the manifest.json it reads
    s3Bucket,             \* deploy: the keys of the objects in the S3 bucket
    deployState         \* deploy: its position, uploads and deletes

manifestVars == <<routesManifest, functionsManifest, cacheControl, manifest>>

distributionVars == <<gatsbyFunctions, cacheBehaviorOptions, distributionOptions,
                      originCustomHeaders, distributionProps>>

siteVars == <<siteProps, site>>

policyVars == <<policyProps, policyDistribution>>

adapterVars == <<gatsbyDir, adapterDir, adaptPc>>

viewerVars == <<viewerRequest>>

deployVars == <<manifestJson, s3Bucket, deployState>>

vars == <<manifestVars, distributionVars, siteVars, policyVars, adapterVars,
          viewerVars, deployVars>>

\* JavaScript's undefined, where a string is expected.
Undefined == "<undefined>"

(***************************************************************************)
(* Sequence helpers.                                                       *)
(***************************************************************************)
Range(s) == {s[i] : i \in DOMAIN s}

RECURSIVE SelectIdx(_, _, _)
\* Array.prototype.filter: the elements s[i] with keep[i], in order.
SelectIdx(s, keep, i) ==
    IF i > Len(s) THEN <<>>
    ELSE (IF keep[i] THEN <<s[i]>> ELSE <<>>) \o SelectIdx(s, keep, i + 1)

StartsWith(s, prefix) ==
    /\ Len(s) >= Len(prefix)
    /\ SubSeq(s, 1, Len(prefix)) = prefix

EndsWith(s, suffix) ==
    /\ Len(s) >= Len(suffix)
    /\ SubSeq(s, Len(s) - Len(suffix) + 1, Len(s)) = suffix

(***************************************************************************)
(* minimatch(path, pattern) with default options, for patterns made of     *)
(* literal characters, "*" and whole-segment "**" (minimatch ^9).          *)
(***************************************************************************)
RECURSIVE SlashSplitFrom(_, _, _)
\* String.split(/\/+/): cut at every run of slashes; cur is the open piece.
SlashSplitFrom(s, i, cur) ==
    IF i > Len(s) THEN <<cur>>
    ELSE IF s[i] = "/"
         THEN IF i > 1 /\ s[i - 1] = "/"
              THEN SlashSplitFrom(s, i + 1, cur)
              ELSE <<cur>> \o SlashSplitFrom(s, i + 1, <<>>)
         ELSE SlashSplitFrom(s, i + 1, Append(cur, s[i]))

SlashSplit(s) == SlashSplitFrom(s, 1, <<>>)

GLOBSTAR == <<"*", "*">>

HasMagic(part) == \E i \in DOMAIN part : part[i] = "*"

RECURSIVE WildMatch(_, _, _, _)
\* The regular expression of a pattern part: "*" is [^/]*? , the rest literal.
WildMatch(f, fi, p, pi) ==
    IF pi > Len(p) THEN fi > Len(f)
    ELSE IF p[pi] = "*"
         THEN \/ WildMatch(f, fi, p, pi + 1)
              \/ (fi <= Len(f) /\ WildMatch(f, fi + 1, p, pi))
         ELSE /\ fi <= Len(f)
              /\ f[fi] = p[pi]
              /\ WildMatch(f, fi + 1, p, pi + 1)

IsDotPart(f) == f = <<".">> \/ f = <<".", ".">>

LeadingDot(f) == Len(f) > 0 /\ f[1] = "."

\* One path part against one pattern part that is not a globstar.
PartMatch(f, p) ==
    IF ~HasMagic(p) THEN f = p
    ELSE IF p = <<"*">> THEN Len(f) > 0 /\ ~LeadingDot(f)
    ELSE /\ WildMatch(f, 1, p, 1)
         /\ (p[1] = "*" => ~LeadingDot(f))
         /\ (p[1] = "." => ~IsDotPart(f))

RECURSIVE MatchOne(_, _, _, _)
\* Minimatch.matchOne(file, pattern) from positions fi and pi, partial = false.
MatchOne(file, fi, pattern, pi) ==
    IF fi > Len(file) /\ pi > Len(pattern) THEN TRUE
    ELSE IF fi > Len(file) THEN FALSE
    ELSE IF pi > Len(pattern) THEN fi = Len(file) /\ file[fi] = <<>>
    ELSE IF pattern[pi] = GLOBSTAR
         THEN IF pi = Len(pattern)
              THEN \A k \in fi..Len(file) :
                      ~IsDotPart(file[k]) /\ ~LeadingDot(file[k])
              ELSE \E fr \in fi..Len(file) :
                      /\ MatchOne(file, fr, pattern, pi + 1)
                      /\ \A k \in fi..(fr - 1) :
                            ~IsDotPart(file[k]) /\ ~LeadingDot(file[k])
         ELSE /\ PartMatch(file[fi], pattern[pi])
              /\ MatchOne(file, fi + 1, pattern, pi + 1)

minimatch(path, pattern) ==
    MatchOne(SlashSplit(path), 1, SlashSplit(pattern), 1)

(***************************************************************************)
(* Manifest: src/src/adapter/handler.ts, lines 53-259.                     *)
(***************************************************************************)
REMOVE_GATSBY_HEADERS ==
    << <<"x", "-", "x", "s", "s", "-", "p", "r", "o", "t", "e", "c", "t", "i", "o", "n">>,
       <<"x", "-", "c", "o", "n", "t", "e", "n", "t", "-", "t", "y", "p", "e", "-", "o", "p", "t", "i", "o", "n", "s">>,
       <<"r", "e", "f", "e", "r", "r", "e", "r", "-", "p", "o", "l", "i", "c", "y">>,
       <<"x", "-", "f", "r", "a", "m", "e", "-", "o", "p", "t", "i", "o", "n", "s">> >>

\* The header name "cache-control".
CACHE_CONTROL == <<"c", "a", "c", "h", "e", "-", "c", "o", "n", "t", "r", "o", "l">>

\* A CacheControl value as it exists at run time: a JavaScript string
\* (kind "string") or an object with a value property (kind "object").
StringValue(s) == [kind |-> "string", value |-> s]

ObjectValue(s) == [kind |-> "object", value |-> s]

DEFAULT_CACHE_CONTROL_MAP ==
    << [key |-> <<"/", "*", ".", "j", "s">>, value |-> StringValue("IMMUTABLE")],
       [key |-> <<"/", "*", ".", "j", "s", ".", "m", "a", "p">>,
        value |-> StringValue("IMMUTABLE")],
       [key |-> <<"/", "*", ".", "c", "s", "s">>, value |-> StringValue("IMMUTABLE")],
       [key |-> <<"/", "p", "a", "g", "e", "-", "d", "a", "t", "a", "/", "a", "p", "p", "-", "d", "a", "t", "a", ".", "j", "s", "o", "n">>,
        value |-> StringValue("NO_CACHE")],
       [key |-> <<"/", "~", "p", "a", "r", "t", "y", "t", "o", "w", "n", "/", "*", "*">>,
        value |-> StringValue("NO_CACHE")] >>

\* A JavaScript object is the sequence of its entries [key, value] in
\* property order.  No key of the objects modelled this way (glob patterns
\* that start with "/", header names) is an array index, so property order
\* is insertion order.
HasProperty(obj, k) == \E i \in DOMAIN obj : obj[i].key = k

\* obj[k] = v: an existing key keeps its place and takes the new value, a
\* new key goes last.
SetProperty(obj, k, v) ==
    IF HasProperty(obj, k)
    THEN [i \in DOMAIN obj |->
             IF obj[i].key = k THEN [key |-> k, value |-> v] ELSE obj[i]]
    ELSE Append(obj, [key |-> k, value |-> v])

RECURSIVE SpreadFrom(_, _, _)
SpreadFrom(acc, b, i) ==
    IF i > Len(b) THEN acc
    ELSE SpreadFrom(SetProperty(acc, b[i].key, b[i].value), b, i + 1)

\* { ...a, ...b }
SpreadMerge(a, b) == SpreadFrom(a, b, 1)

\* The conditional expression with the two keywords exchanged.
CacheControlHeaderValue_KeywordsSwapped(cacheControlValue) ==
    IF cacheControlValue = StringValue("IMMUTABLE")
    THEN "public, max-age=0, must-revalidate"
    ELSE IF cacheControlValue = StringValue("NO_CACHE")
         THEN "public, max-age=31536000, immutable"
         ELSE IF cacheControlValue.kind = "object"
              THEN cacheControlValue.value
              ELSE Undefined

\* The header value pushed for a matching rule (the conditional expression).
\* Reading .value of a JavaScript string gives undefined.
CacheControlHeaderValue(cacheControlValue) ==
    IF cacheControlValue = StringValue("IMMUTABLE")
    THEN "public, max-age=31536000, immutable"
    ELSE IF cacheControlValue = StringValue("NO_CACHE")
         THEN "public, max-age=0, must-revalidate"
         ELSE IF cacheControlValue.kind = "object"
              THEN cacheControlValue.value
              ELSE Undefined

\* A dedupeHeaders that keeps the first value of a key instead of the last.
dedupeHeaders_FirstWins(headers) ==
    LET first(i) == \A j \in 1..(i - 1) : headers[j].key # headers[i].key
    IN SelectIdx(headers, [i \in DOMAIN headers |-> first(i)], 1)

\* dedupeHeaders: the reduce builds an object keyed by header key, so each
\* key is kept once, at the place of its first occurrence, with the value of
\* its last; Object.entries reads it back in property order.
dedupeHeaders(headers) == SpreadFrom(<<>>, headers, 1)

\* The merge with the caller's table spread after the defaults.
CacheControlMap_CallerLast(cc) == SpreadMerge(DEFAULT_CACHE_CONTROL_MAP, cc)

\* Combine cache control map with defaults (lines 139-143).
CacheControlMap(cc) == SpreadMerge(cc, DEFAULT_CACHE_CONTROL_MAP)

\* Manifest.mapRoute(route, { cacheControl }).
mapRoute(route, cc) ==
    IF route.type = "function" THEN route
    ELSE LET generated ==
                 IF route.hasHeaders
                 THEN SelectSeq(route.headers,
                                LAMBDA h : h.key \notin Range(REMOVE_GATSBY_HEADERS))
                 ELSE <<>>
             matching == SelectSeq(CacheControlMap(cc),
                                   LAMBDA e : minimatch(route.path, e.key))
             pushed == [i \in DOMAIN matching |->
                           [key |-> CACHE_CONTROL,
                            value |-> CacheControlHeaderValue(matching[i].value)]]
         IN [route EXCEPT !.hasHeaders = TRUE,
                          !.headers = dedupeHeaders(generated \o pushed)]

(***************************************************************************)
(* mime.getType(path) (mime ^4): the type of the extension of the last     *)
(* path component, null without one.                                       *)
(***************************************************************************)
UpperCase == <<"A", "B", "C", "D", "E", "F", "G", "H", "I", "J", "K", "L", "M",
               "N", "O", "P", "Q", "R", "S", "T", "U", "V", "W", "X", "Y", "Z">>

LowerCase == <<"a", "b", "c", "d", "e", "f", "g", "h", "i", "j", "k", "l", "m",
               "n", "o", "p", "q", "r", "s", "t", "u", "v", "w", "x", "y", "z">>

\* String.prototype.toLowerCase
toLowerCase(s) ==
    [i \in DOMAIN s |->
        IF \E n \in DOMAIN UpperCase : UpperCase[n] = s[i]
        THEN LowerCase[CHOOSE n \in DOMAIN UpperCase : UpperCase[n] = s[i]]
        ELSE s[i]]

\* s.replace(/^.*<c>/, ""): what follows the last occurrence of c.
AfterLast(s, c) ==
    IF \E i \in DOMAIN s : s[i] = c
    THEN LET last == CHOOSE i \in DOMAIN s :
                        s[i] = c /\ \A j \in (i + 1)..Len(s) : s[j] # c
         IN SubSeq(s, last + 1, Len(s))
    ELSE s

Null == "<null>"

ExtensionToType(ext) ==
        CASE ext = <<"j", "s">> -> "text/javascript"
          [] ext = <<"c", "s", "s">> -> "text/css"
          [] ext = <<"j", "s", "o", "n">> -> "application/json"
          [] ext = <<"m", "a", "p">> -> "application/json"
          [] ext = <<"h", "t", "m", "l">> -> "text/html"
          [] ext = <<"t", "x", "t">> -> "text/plain"
          [] ext = <<"p", "n", "g">> -> "image/png"
          [] OTHER -> Null

mimeGetType(path) ==
    LET last == toLowerCase(AfterLast(path, "/"))
        ext == toLowerCase(AfterLast(last, "."))
        hasPath == Len(last) < Len(path)
        hasDot == Len(ext) < Len(last) - 1
    IN IF ~hasDot /\ hasPath THEN Null ELSE ExtensionToType(ext)

(***************************************************************************)
(* Asset groups.                                                           *)
(***************************************************************************)
\* JSON.stringify({ contentType, cacheControl }): a property whose value is
\* undefined is left out.
JSONStringify(contentType, cc) ==
    "{\"contentType\":\"" \o contentType \o "\""
      \o (IF cc = Undefined THEN "" ELSE ",\"cacheControl\":\"" \o cc \o "\"")
      \o "}"

\* createHash("shake256", { outputLength: 3 }).update(json).digest("hex"):
\* the digests of the texts the model can build, as SHAKE256 computes them.
Shake256Hex3(json) ==
    CASE json = "{\"contentType\":\"text/javascript\"}"
        -> <<"5", "9", "d", "c", "4", "7">>
      [] json = "{\"contentType\":\"text/javascript\",\"cacheControl\":\"public, max-age=31536000, immutable\"}"
        -> <<"e", "c", "7", "c", "5", "0">>
      [] json = "{\"contentType\":\"text/javascript\",\"cacheControl\":\"public, max-age=0, must-revalidate\"}"
        -> <<"2", "6", "6", "f", "6", "d">>
      [] json = "{\"contentType\":\"text/javascript\",\"cacheControl\":\"public, max-age=0, s-maxage=1230, must-revalidate\"}"
        -> <<"3", "d", "e", "0", "2", "1">>
      [] json = "{\"contentType\":\"text/css\"}"
        -> <<"c", "8", "9", "3", "d", "5">>
      [] json = "{\"contentType\":\"text/css\",\"cacheControl\":\"public, max-age=31536000, immutable\"}"
        -> <<"3", "b", "2", "1", "b", "4">>
      [] json = "{\"contentType\":\"text/css\",\"cacheControl\":\"public, max-age=0, must-revalidate\"}"
        -> <<"8", "6", "1", "a", "b", "4">>
      [] json = "{\"contentType\":\"text/css\",\"cacheControl\":\"public, max-age=0, s-maxage=1230, must-revalidate\"}"
        -> <<"6", "3", "0", "d", "e", "5">>
      [] json = "{\"contentType\":\"application/json\"}"
        -> <<"9", "b", "a", "f", "b", "6">>
      [] json = "{\"contentType\":\"application/json\",\"cacheControl\":\"public, max-age=31536000, immutable\"}"
        -> <<"c", "9", "7", "0", "e", "8">>
      [] json = "{\"contentType\":\"application/json\",\"cacheControl\":\"public, max-age=0, must-revalidate\"}"
        -> <<"9", "c", "3", "8", "b", "e">>
      [] json = "{\"contentType\":\"application/json\",\"cacheControl\":\"public, max-age=0, s-maxage=1230, must-revalidate\"}"
        -> <<"6", "2", "3", "3", "0", "f">>
      [] json = "{\"contentType\":\"text/html\"}"
        -> <<"3", "2", "e", "4", "a", "3">>
      [] json = "{\"contentType\":\"text/html\",\"cacheControl\":\"public, max-age=31536000, immutable\"}"
        -> <<"d", "8", "d", "d", "5", "b">>
      [] json = "{\"contentType\":\"text/html\",\"cacheControl\":\"public, max-age=0, must-revalidate\"}"
        -> <<"3", "f", "3", "5", "0", "e">>
      [] json = "{\"contentType\":\"text/html\",\"cacheControl\":\"public, max-age=0, s-maxage=1230, must-revalidate\"}"
        -> <<"d", "e", "2", "c", "c", "0">>
      [] json = "{\"contentType\":\"text/plain\"}"
        -> <<"2", "6", "c", "2", "4", "7">>
      [] json = "{\"contentType\":\"text/plain\",\"cacheControl\":\"public, max-age=31536000, immutable\"}"
        -> <<"e", "e", "2", "b", "2", "b">>
      [] json = "{\"contentType\":\"text/plain\",\"cacheControl\":\"public, max-age=0, must-revalidate\"}"
        -> <<"0", "0", "b", "c", "a", "0">>
      [] json = "{\"contentType\":\"text/plain\",\"cacheControl\":\"public, max-age=0, s-maxage=1230, must-revalidate\"}"
        -> <<"1", "9", "c", "9", "2", "0">>
      [] json = "{\"contentType\":\"text/plain\",\"cacheControl\":\"public, max-age=0, s-maxage=3099, must-revalidate\"}"
        -> <<"1", "9", "c", "9", "2", "0">>
      [] json = "{\"contentType\":\"image/png\"}"
        -> <<"c", "7", "3", "d", "a", "d">>
      [] json = "{\"contentType\":\"image/png\",\"cacheControl\":\"public, max-age=31536000, immutable\"}"
        -> <<"1", "7", "b", "a", "7", "6">>
      [] json = "{\"contentType\":\"image/png\",\"cacheControl\":\"public, max-age=0, must-revalidate\"}"
        -> <<"6", "b", "a", "b", "f", "4">>
      [] json = "{\"contentType\":\"image/png\",\"cacheControl\":\"public, max-age=0, s-maxage=1230, must-revalidate\"}"
        -> <<"e", "e", "f", "7", "4", "f">>
      [] json = "{\"contentType\":\"application/octet-stream\"}"
        -> <<"d", "1", "8", "8", "9", "3">>
      [] json = "{\"contentType\":\"application/octet-stream\",\"cacheControl\":\"public, max-age=31536000, immutable\"}"
        -> <<"f", "5", "2", "d", "a", "5">>
      [] json = "{\"contentType\":\"application/octet-stream\",\"cacheControl\":\"public, max-age=0, must-revalidate\"}"
        -> <<"3", "4", "0", "7", "3", "4">>
      [] json = "{\"contentType\":\"application/octet-stream\",\"cacheControl\":\"public, max-age=0, s-maxage=1230, must-revalidate\"}"
        -> <<"5", "7", "4", "4", "3", "2">>

\* The short hash of a group (lines 192-194).
AssetGroupHash(contentType, cc) == Shake256Hex3(JSONStringify(contentType, cc))

PUBLIC_PREFIX == <<"p", "u", "b", "l", "i", "c", "/">>

\* objectKeyFromFilePath: String.replace drops the first "public/", which a
\* path that starts with it has at its start.
objectKeyFromFilePath(filePath) ==
    IF StartsWith(filePath, PUBLIC_PREFIX)
    THEN SubSeq(filePath, Len(PUBLIC_PREFIX) + 1, Len(filePath))
    ELSE filePath

\* route.headers.find(({ key }) => "cache-control" === key)?.value
FindCacheControl(headers) ==
    IF \E i \in DOMAIN headers : headers[i].key = CACHE_CONTROL
    THEN headers[CHOOSE i \in DOMAIN headers :
                    /\ headers[i].key = CACHE_CONTROL
                    /\ \A j \in 1..(i - 1) : headers[j].key # CACHE_CONTROL].value
    ELSE Undefined

ContentTypeOf(filePath) ==
    LET t == mimeGetType(filePath)
    IN IF t = Null THEN "application/octet-stream" ELSE t

\* The first half of the reduce callback: what one static route contributes.
AssetKey(route) ==
    LET contentType == ContentTypeOf(route.filePath)
        cc == FindCacheControl(route.headers)
    IN [contentType |-> contentType,
        cacheControl |-> cc,
        hash |-> AssetGroupHash(contentType, cc),
        asset |-> [filePath |-> route.filePath,
                   objectKey |-> objectKeyFromFilePath(route.filePath)]]

Digits == <<"0", "1", "2", "3", "4", "5", "6", "7", "8", "9">>

IsDigit(c) == \E d \in DOMAIN Digits : Digits[d] = c

DigitValue(c) == (CHOOSE d \in DOMAIN Digits : Digits[d] = c) - 1

\* A property key that is an array index: a canonical decimal numeral.  (A
\* six-character key is below 2^32 - 1.)
IsArrayIndex(k) ==
    /\ Len(k) > 0
    /\ \A i \in DOMAIN k : IsDigit(k[i])
    /\ (Len(k) > 1 => k[1] # "0")

RECURSIVE NumberOf(_, _)
NumberOf(k, n) ==
    IF n = 0 THEN 0 ELSE 10 * NumberOf(k, n - 1) + DigitValue(k[n])

RECURSIVE AscendingIndexEntries(_)
\* The entries whose key is an array index, in ascending numeric order.
AscendingIndexEntries(entries) ==
    IF entries = <<>> THEN <<>>
    ELSE LET least == CHOOSE i \in DOMAIN entries :
                         \A j \in DOMAIN entries :
                            NumberOf(entries[i].key, Len(entries[i].key))
                              <= NumberOf(entries[j].key, Len(entries[j].key))
             rest == [i \in DOMAIN entries |-> i # least]
         IN <<entries[least]>> \o AscendingIndexEntries(SelectIdx(entries, rest, 1))

\* Object.values of an object whose keys are hashes: the array-index keys
\* come first in ascending order, the others follow in insertion order.
ObjectValues(obj) ==
    LET ordered ==
            AscendingIndexEntries(SelectSeq(obj, LAMBDA e : IsArrayIndex(e.key)))
              \o SelectSeq(obj, LAMBDA e : ~IsArrayIndex(e.key))
    IN [i \in DOMAIN ordered |-> ordered[i].value]

(***************************************************************************)
(* The inputs of one build: the generator's routes and functions and the   *)
(* caller's cacheControl option.                                           *)
(***************************************************************************)
Header(k, v) == [key |-> k, value |-> v]

\* The route variants of the generator's RoutesManifest.  A field a variant
\* does not have is empty; hasHeaders tells whether route.headers is set.
StaticRoute(path, filePath, headers) ==
    [type |-> "static", path |-> path, filePath |-> filePath,
     functionId |-> "", hasHeaders |-> TRUE, headers |-> headers]

FunctionRoute(path, functionId) ==
    [type |-> "function", path |-> path, filePath |-> <<>>,
     functionId |-> functionId, hasHeaders |-> FALSE, headers |-> <<>>]

RedirectRoute(path) ==
    [type |-> "redirect", path |-> path, filePath |-> <<>>,
     functionId |-> "", hasHeaders |-> FALSE, headers |-> <<>>]

MaxRoutes == 2

MaxRules == 2

RoutePool ==
    { StaticRoute(<<"/", "a", "p", "p", "-", "a", "b", "c", "1", "2", "3", ".", "j", "s">>,
                  <<"p", "u", "b", "l", "i", "c", "/", "a", "p", "p", "-", "a", "b", "c", "1", "2", "3", ".", "j", "s">>,
                  <<Header(<<"x", "-", "x", "s", "s", "-", "p", "r", "o", "t", "e", "c", "t", "i", "o", "n">>,
                           "1; mode=block"), Header(CACHE_CONTROL,
                           "public, max-age=0, must-revalidate")>>),
      StaticRoute(<<"/", "a", "p", "p", ".", "j", "s", ".", "m", "a", "p">>,
                  <<"p", "u", "b", "l", "i", "c", "/", "a", "p", "p", ".", "j", "s", ".", "m", "a", "p">>,
                  <<>>),
      StaticRoute(<<"/", "a", ".", "c", "s", "s">>,
                  <<"p", "u", "b", "l", "i", "c", "/", "a", ".", "c", "s", "s">>,
                  <<>>),
      StaticRoute(<<"/", "b", ".", "c", "s", "s">>,
                  <<"p", "u", "b", "l", "i", "c", "/", "b", ".", "c", "s", "s">>,
                  <<Header(<<"C", "a", "c", "h", "e", "-", "C", "o", "n", "t", "r", "o", "l">>,
                           "public, max-age=0, must-revalidate")>>),
      StaticRoute(<<"/", "p", "a", "g", "e", "-", "d", "a", "t", "a", "/", "a", "p", "p", "-", "d", "a", "t", "a", ".", "j", "s", "o", "n">>,
                  <<"p", "u", "b", "l", "i", "c", "/", "p", "a", "g", "e", "-", "d", "a", "t", "a", "/", "a", "p", "p", "-", "d", "a", "t", "a", ".", "j", "s", "o", "n">>,
                  <<Header(CACHE_CONTROL,
                           "public, max-age=31536000, immutable")>>),
      StaticRoute(<<"/", "~", "p", "a", "r", "t", "y", "t", "o", "w", "n", "/", "d", "e", "b", "u", "g", "/", "L", "I", "C", "E", "N", "S", "E">>,
                  <<"p", "u", "b", "l", "i", "c", "/", "~", "p", "a", "r", "t", "y", "t", "o", "w", "n", "/", "d", "e", "b", "u", "g", "/", "L", "I", "C", "E", "N", "S", "E">>,
                  <<Header(<<"x", "-", "c", "o", "n", "t", "e", "n", "t", "-", "t", "y", "p", "e", "-", "o", "p", "t", "i", "o", "n", "s">>,
                           "nosniff")>>),
      StaticRoute(<<"/", "a", ".", "t", "x", "t">>,
                  <<"p", "u", "b", "l", "i", "c", "/", "a", ".", "t", "x", "t">>,
                  <<Header(<<"x", "-", "f", "r", "a", "m", "e", "-", "o", "p", "t", "i", "o", "n", "s">>,
                           "DENY"), Header(CACHE_CONTROL,
                           "public, max-age=0, must-revalidate"), Header(<<"x", "-", "c", "u", "s", "t", "o", "m">>,
                           "1"), Header(CACHE_CONTROL,
                           "public, max-age=31536000, immutable")>>),
      StaticRoute(<<"/", "b", ".", "t", "x", "t">>,
                  <<"a", ".", "t", "x", "t">>,
                  <<>>),
      StaticRoute(<<"/", "c", ".", "t", "x", "t">>,
                  <<"p", "u", "b", "l", "i", "c", "/", "a", ".", "t", "x", "t">>,
                  <<>>),
      StaticRoute(<<"/", "a", "b", "o", "u", "t", "/">>,
                  <<"p", "u", "b", "l", "i", "c", "/", "a", "b", "o", "u", "t", "/", "i", "n", "d", "e", "x", ".", "h", "t", "m", "l">>,
                  <<Header(<<"r", "e", "f", "e", "r", "r", "e", "r", "-", "p", "o", "l", "i", "c", "y">>,
                           "same-origin"), Header(CACHE_CONTROL,
                           "public, max-age=0, must-revalidate")>>),
      StaticRoute(<<"/", "a", "b", "o", "u", "t", "/", "i", "n", "d", "e", "x", ".", "h", "t", "m", "l">>,
                  <<"p", "u", "b", "l", "i", "c", "/", "a", "b", "o", "u", "t", "/", "i", "n", "d", "e", "x", ".", "h", "t", "m", "l">>,
                  <<Header(CACHE_CONTROL,
                           "public, max-age=0, must-revalidate")>>),
      FunctionRoute(<<"/", "a", "p", "i", "/", "h", "e", "l", "l", "o">>, "hello"),
      FunctionRoute(<<"/", "s", "s", "r", "/">>, "ssr-engine"),
      RedirectRoute(<<"/", "o", "l", "d", "/">>) }

\* Caller rules: the typed form { value: string } and, as in the README, a
\* bare Cache-Control string.
RulePool ==
    { [key |-> <<"/", "*", ".", "j", "s">>, value |-> StringValue("NO_CACHE")],
      [key |-> <<"/", "*", "*">>,
            value |-> ObjectValue("public, max-age=0, s-maxage=1230, must-revalidate")],
      [key |-> <<"/", "b", ".", "t", "x", "t">>,
            value |-> ObjectValue("public, max-age=0, s-maxage=3099, must-revalidate")],
      [key |-> <<"/", "*", ".", "t", "x", "t">>,
            value |-> StringValue("public, max-age=0, s-maxage=600, must-revalidate")] }

FunctionsPool ==
    { <<[functionId |-> "ssr-engine", name |-> "SSR & DSG"],
        [functionId |-> "hello", name |-> "/api/hello"]>> }

\* ulid() gives a fresh identifier on every call.
BuildIds == {"01HZX0", "01HZX1"}

SeqsUpTo(S, n) == UNION {[1..k -> S] : k \in 0..n}

\* Route lists with pairwise distinct paths.
RouteLists ==
    {rs \in SeqsUpTo(RoutePool, MaxRoutes) :
        \A i, j \in DOMAIN rs : i # j => rs[i].path # rs[j].path}

\* An object literal has each key once.
RuleTables ==
    {t \in SeqsUpTo(RulePool, MaxRules) :
        \A i, j \in DOMAIN t : i # j => t[i].key # t[j].key}

\* mapRoute and AssetKey over the inputs of the model.  These are constants;
\* "@@" makes TLC compute each of them once and keep it as a table.
MapRouteTable ==
    [route \in RoutePool, cc \in RuleTables |-> mapRoute(route, cc)] @@ <<>>

AssetKeyTable ==
    [route \in {MapRouteTable[r, cc] : r \in RoutePool, cc \in RuleTables}
        |-> AssetKey(route)] @@ <<>>

\* A reduce callback that starts the group anew for every route.
AssetGroupStep_NoAppend(acc, route) ==
    LET k == AssetKeyTable[route]
    IN SetProperty(acc, k.hash,
                   [hash |-> k.hash, contentType |-> k.contentType,
                    cacheControl |-> k.cacheControl, assets |-> <<k.asset>>])

\* The reduce callback of mapAssetGroups: acc is the object keyed by hash.
AssetGroupStep(acc, route) ==
    LET k == AssetKeyTable[route]
        assetGroup ==
            IF HasProperty(acc, k.hash)
            THEN LET existingAssetGroup ==
                         acc[CHOOSE i \in DOMAIN acc : acc[i].key = k.hash].value
                 IN [existingAssetGroup EXCEPT
                        !.assets = Append(existingAssetGroup.assets, k.asset)]
            ELSE [hash |-> k.hash, contentType |-> k.contentType,
                  cacheControl |-> k.cacheControl, assets |-> <<k.asset>>]
    IN SetProperty(acc, k.hash, assetGroup)

RECURSIVE AssetGroupReduce(_, _, _)
AssetGroupReduce(acc, routes, i) ==
    IF i > Len(routes) THEN acc
    ELSE AssetGroupReduce(AssetGroupStep(acc, routes[i]), routes, i + 1)

\* mapAssetGroups without the filter on route.type.
mapAssetGroups_NoStaticFilter(routes) ==
    ObjectValues(AssetGroupReduce(<<>>, routes, 1))

\* Manifest.mapAssetGroups(routes)
mapAssetGroups(routes) ==
    LET staticRoutes == SelectSeq(routes, LAMBDA r : r.type = "static")
    IN ObjectValues(AssetGroupReduce(<<>>, staticRoutes, 1))

NoManifest == [built |-> FALSE]

\* A constructor whose asset groups come out in an order that depends on the
\* build id.
ManifestOf_OrderByBuildId(buildId, routes, functions, cc) ==
    LET mapped == [i \in DOMAIN routes |-> MapRouteTable[routes[i], cc]]
        groups == mapAssetGroups(mapped)
    IN [built |-> TRUE,
        buildId |-> buildId,
        routes |-> mapped,
        functions |-> functions,
        assetGroups |->
            IF buildId = "01HZX0" THEN groups
            ELSE [i \in DOMAIN groups |-> groups[Len(groups) + 1 - i]]]

\* new Manifest({ cacheControl, routesManifest, functionsManifest })
ManifestOf(buildId, routes, functions, cc) ==
    LET mapped == [i \in DOMAIN routes |-> MapRouteTable[routes[i], cc]]
    IN [built |-> TRUE,
        buildId |-> buildId,
        routes |-> mapped,
        functions |-> functions,
        assetGroups |-> mapAssetGroups(mapped)]

(***************************************************************************)
(* GatsbyDistribution: src/src/cdk/GatsbyDistribution.ts, lines 67-324.    *)
(* A cloud resource (bucket, policy, CloudFront function) is its name.     *)
(***************************************************************************)
SSR_ENGINE_FUNCTION_ID == "ssr-engine"

Bucket == "bucket"

CachePolicy == "cachePolicy"

StaticViewerRequestFn == "StaticViewerRequestFunction"

PageDataViewerRequestFn == "PageDataViewerRequestFunction"

\* The executors handed to the distribution (types.ts, GatsbyFunction).
LambdaFunction(id, name, domain) ==
    [id |-> id, name |-> name, target |-> "LAMBDA",
     lambdaFunctionUrlDomain |-> domain, loadBalancer |-> Undefined]

FargateFunction(id, name, loadBalancer) ==
    [id |-> id, name |-> name, target |-> "FARGATE",
     lambdaFunctionUrlDomain |-> Undefined, loadBalancer |-> loadBalancer]

S3Origin(bucket) == [kind |-> "S3Origin", target |-> bucket,
                     customHeaders |-> Undefined]

HttpOrigin(domain, customHeaders) ==
    [kind |-> "HttpOrigin", target |-> domain, customHeaders |-> customHeaders]

LoadBalancerV2Origin(loadBalancer, customHeaders) ==
    [kind |-> "LoadBalancerV2Origin", target |-> loadBalancer,
     customHeaders |-> customHeaders]

NoOrigin == [kind |-> "none", target |-> Undefined, customHeaders |-> Undefined]

\* An Omit<BehaviorOptions, "origin"> of the caller, or undefined (set =
\* FALSE).  A property the caller leaves out is Undefined;
\* hasFunctionAssociations tells whether functionAssociations is given.
NoOptions ==
    [set |-> FALSE, cachePolicy |-> Undefined, originRequestPolicy |-> Undefined,
     allowedMethods |-> Undefined, hasFunctionAssociations |-> FALSE,
     functionAssociations |-> <<>>, additionalBehaviors |-> <<>>]

NoCacheBehaviorOptions ==
    [default |-> NoOptions, pageData |-> NoOptions, assets |-> NoOptions,
     functions |-> NoOptions]

\* options?.functionAssociations ?? []
FunctionAssociationsOf(options) ==
    IF options.set /\ options.hasFunctionAssociations
    THEN options.functionAssociations
    ELSE <<>>

\* !!(options?.functionAssociations ?? []).find(fn => VIEWER_REQUEST === fn.eventType)
HasCustomViewerRequestFunction(options) ==
    \E i \in DOMAIN FunctionAssociationsOf(options) :
        FunctionAssociationsOf(options)[i].eventType = "viewer-request"

\* { ...defaults, ...options, origin, functionAssociations }: the caller's
\* properties replace the defaults, the protected ones replace the caller's.
Behavior(defaults, options, origin, functionAssociations) ==
    LET pick(field) ==
            IF options.set /\ options[field] # Undefined
            THEN options[field]
            ELSE defaults[field]
    IN [cachePolicy |-> pick("cachePolicy"),
        viewerProtocolPolicy |-> defaults.viewerProtocolPolicy,
        originRequestPolicy |-> pick("originRequestPolicy"),
        allowedMethods |-> pick("allowedMethods"),
        origin |-> origin,
        functionAssociations |-> functionAssociations]

\* The functionAssociations of a behaviour that gets a default viewer-request
\* function unless the caller gave one.
WithDefaultViewerRequest(options, fn) ==
    FunctionAssociationsOf(options)
      \o (IF ~HasCustomViewerRequestFunction(options)
          THEN <<[function |-> fn, eventType |-> "viewer-request"]>>
          ELSE <<>>)

\* The origin of an executor (lines 146-154 and 279-294).
FunctionOrigin(gatsbyFunction, customHeaders) ==
    IF gatsbyFunction.target = "LAMBDA"
    THEN HttpOrigin(gatsbyFunction.lambdaFunctionUrlDomain, customHeaders)
    ELSE LoadBalancerV2Origin(gatsbyFunction.loadBalancer, customHeaders)

HasSsrEngineFunction(fns) ==
    \E i \in DOMAIN fns : fns[i].id = SSR_ENGINE_FUNCTION_ID

\* gatsbyFunctions.find(({ id }) => SSR_ENGINE_FUNCTION_ID === id)
SsrEngineFunction(fns) ==
    fns[CHOOSE i \in DOMAIN fns :
            /\ fns[i].id = SSR_ENGINE_FUNCTION_ID
            /\ \A j \in 1..(i - 1) : fns[j].id # SSR_ENGINE_FUNCTION_ID]

\* A default origin that is the bucket whatever the executors are.
DefaultOrigin_AlwaysBucket(fns, customHeaders) == S3Origin(Bucket)

\* Compute the default origin (lines 145-155).
DefaultOrigin(fns, customHeaders) ==
    IF HasSsrEngineFunction(fns)
    THEN FunctionOrigin(SsrEngineFunction(fns), customHeaders)
    ELSE S3Origin(Bucket)

\* Construct default cache behavior (lines 157-190).
DefaultBehavior(fns, options, customHeaders) ==
    IF HasSsrEngineFunction(fns)
    THEN Behavior([cachePolicy |-> CachePolicy,
                   viewerProtocolPolicy |-> "redirect-to-https",
                   originRequestPolicy |-> "ALL_VIEWER_EXCEPT_HOST_HEADER",
                   allowedMethods |-> Undefined],
                  options.default,
                  DefaultOrigin(fns, customHeaders),
                  FunctionAssociationsOf(options.default))
    ELSE Behavior([cachePolicy |-> CachePolicy,
                   viewerProtocolPolicy |-> "redirect-to-https",
                   originRequestPolicy |-> Undefined,
                   allowedMethods |-> Undefined],
                  options.default,
                  DefaultOrigin(fns, customHeaders),
                  WithDefaultViewerRequest(options.default, StaticViewerRequestFn))

\* Construct page-data cache behavior (lines 192-218); used with an SSR engine.
PageDataBehavior(fns, options, customHeaders) ==
    Behavior([cachePolicy |-> CachePolicy,
              viewerProtocolPolicy |-> "redirect-to-https",
              originRequestPolicy |-> "ALL_VIEWER_EXCEPT_HOST_HEADER",
              allowedMethods |-> Undefined],
             options.pageData,
             DefaultOrigin(fns, customHeaders),
             WithDefaultViewerRequest(options.pageData, PageDataViewerRequestFn))

\* The "/assets/*" behaviour (lines 244-263).
AssetsBehavior(options) ==
    Behavior([cachePolicy |-> Undefined,
              viewerProtocolPolicy |-> "redirect-to-https",
              originRequestPolicy |-> Undefined,
              allowedMethods |-> Undefined],
             options.assets,
             S3Origin(Bucket),
             WithDefaultViewerRequest(options.assets, StaticViewerRequestFn))

\* The behaviour of one additional function (lines 268-295).  The caller's
\* functionAssociations are not protected here: they pass with the spread.
FunctionBehavior(gatsbyFunction, options, customHeaders) ==
    Behavior([cachePolicy |-> CachePolicy,
              viewerProtocolPolicy |-> "redirect-to-https",
              originRequestPolicy |-> "ALL_VIEWER_EXCEPT_HOST_HEADER",
              allowedMethods |-> "ALLOW_ALL"],
             options.functions,
             FunctionOrigin(gatsbyFunction, customHeaders),
             FunctionAssociationsOf(options.functions))

RECURSIVE FunctionBehaviors(_, _, _, _, _)
\* additionalFunctions.reduce(...) spread into additionalBehaviors.
FunctionBehaviors(acc, fns, i, options, customHeaders) ==
    IF i > Len(fns) THEN acc
    ELSE FunctionBehaviors(
             SetProperty(acc, fns[i].name,
                         FunctionBehavior(fns[i], options, customHeaders)),
             fns, i + 1, options, customHeaders)

\* additionalBehaviors (lines 234-301): an object keyed by path pattern.
AdditionalBehaviors(fns, options, distOptions, customHeaders) ==
    LET additionalFunctions ==
            SelectSeq(fns, LAMBDA f : f.id # SSR_ENGINE_FUNCTION_ID)
        pageData ==
            IF HasSsrEngineFunction(fns)
            THEN <<[key |-> "*page-data.json",
                    value |-> PageDataBehavior(fns, options, customHeaders)]>>
            ELSE <<>>
        assets == SetProperty(pageData, "/assets/*", AssetsBehavior(options))
        functions ==
            FunctionBehaviors(assets, additionalFunctions, 1, options, customHeaders)
    IN SpreadMerge(functions,
                   IF distOptions.set THEN distOptions.additionalBehaviors ELSE <<>>)

\* Construct distribution props (lines 220-302).
DistributionPropsOf(fns, options, distOptions, customHeaders) ==
    [built |-> TRUE,
     defaultRootObject |->
         IF HasSsrEngineFunction(fns) THEN Undefined ELSE "index.html",
     errorResponses |->
         <<[httpStatus |-> 403, responseHttpStatus |-> 404,
            responsePagePath |-> "/404/index.html"]>>,
     defaultBehavior |-> DefaultBehavior(fns, options, customHeaders),
     additionalBehaviors |->
         AdditionalBehaviors(fns, options, distOptions, customHeaders)]

NoProps == [built |-> FALSE]

(***************************************************************************)
(* The inputs of one synthesis.                                            *)
(***************************************************************************)
MaxFunctions == 2

ExecutorPool ==
    { LambdaFunction("ssr-engine", "SSR & DSG", "ssr.lambda-url.aws"),
      FargateFunction("ssr-engine", "SSR & DSG", "ssr-alb"),
      LambdaFunction("hello", "/api/hello", "hello.lambda-url.aws"),
      FargateFunction("hello", "/api/hello", "hello-alb"),
      LambdaFunction("bye", "/api/bye", "bye.lambda-url.aws") }

\* One executor per manifest function: the ids differ.
ExecutorLists ==
    {fs \in SeqsUpTo(ExecutorPool, MaxFunctions) :
        \A i, j \in DOMAIN fs : i # j => fs[i].id # fs[j].id}

BehaviorOptionsPool ==
    { NoOptions,
      [NoOptions EXCEPT !.set = TRUE, !.cachePolicy = "customCachePolicy"],
      [NoOptions EXCEPT !.set = TRUE, !.hasFunctionAssociations = TRUE,
                        !.functionAssociations =
                            <<[function |-> "customViewerRequestFn",
                               eventType |-> "viewer-request"]>>],
      [NoOptions EXCEPT !.set = TRUE, !.hasFunctionAssociations = TRUE,
                        !.functionAssociations =
                            <<[function |-> "customOriginResponseFn",
                               eventType |-> "origin-response"]>>] }

CacheBehaviorOptionsPool ==
    [default : BehaviorOptionsPool, pageData : BehaviorOptionsPool,
     assets : BehaviorOptionsPool, functions : BehaviorOptionsPool]

CustomBehavior ==
    [cachePolicy |-> "customCachePolicy",
     viewerProtocolPolicy |-> "allow-all",
     originRequestPolicy |-> Undefined,
     allowedMethods |-> Undefined,
     origin |-> HttpOrigin("custom.example.com", Undefined),
     functionAssociations |-> <<>>]

\* distributionOptions, of which the constructor reads additionalBehaviors.
DistributionOptionsPool ==
    { NoOptions,
      [NoOptions EXCEPT !.set = TRUE,
                        !.additionalBehaviors =
                            <<[key |-> "/custom/*", value |-> CustomBehavior]>>],
      [NoOptions EXCEPT !.set = TRUE,
                        !.additionalBehaviors =
                            <<[key |-> "/assets/*", value |-> CustomBehavior]>>],
      [NoOptions EXCEPT !.set = TRUE,
                        !.additionalBehaviors =
                            <<[key |-> "*page-data.json", value |-> CustomBehavior]>>],
      [NoOptions EXCEPT !.set = TRUE,
                        !.additionalBehaviors =
                            <<[key |-> "/api/hello", value |-> CustomBehavior]>>] }

OriginCustomHeadersPool == {Undefined, "x-origin-verify"}

(***************************************************************************)
(* GatsbySite: src/unnamed/part_011, lines 68-255.                         *)
(* A Duration is its number of seconds; a declared resource is a record of *)
(* its CloudFormation type, its construct id and the props of interest.    *)
(***************************************************************************)
\* An optional value: <<>> when it is undefined, <<v>> when it is v.
None == <<>>

Some(v) == <<v>>

\* GatsbyFunctionOptions (types.ts).
OptionsDisabled ==
    [target |-> "DISABLED", timeout |-> None, memorySize |-> None]

OptionsLambda(timeout, memorySize) ==
    [target |-> "LAMBDA", timeout |-> timeout, memorySize |-> memorySize]

OptionsFargate ==
    [target |-> "FARGATE", timeout |-> None, memorySize |-> None]

\* Gatsby Functions run in Lambda by default.
DEFAULT_GATSBY_FUNCTION_OPTIONS == OptionsLambda(None, None)

\* options.timeout ?? isSsrEngine ? Duration.seconds(30) : Duration.minutes(1)
\* "??" binds tighter than "? :", so the condition is (timeout ?? isSsrEngine):
\* a Duration object, which is truthy, or isSsrEngine.
LambdaTimeout(options, isSsrEngine) ==
    LET condition == IF options.timeout # None THEN TRUE ELSE isSsrEngine
    IN IF condition THEN 30 ELSE 60

\* options.memorySize ?? isSsrEngine ? 1024 : 512: the condition is
\* (memorySize ?? isSsrEngine), a number (truthy unless 0) or isSsrEngine.
LambdaMemorySize(options, isSsrEngine) ==
    LET condition == IF options.memorySize # None
                     THEN options.memorySize[1] # 0
                     ELSE isSsrEngine
    IN IF condition THEN 1024 ELSE 512

\* Resolve target options for one manifest function (lines 102-109).
ResolveOptions(props, fn) ==
    LET resolved ==
            IF fn.functionId = SSR_ENGINE_FUNCTION_ID
            THEN props.ssrOptions
            ELSE IF props.gatsbyFunctionOptions = None THEN None
                 ELSE props.gatsbyFunctionOptions[1][fn.functionId]
    IN IF resolved = None THEN DEFAULT_GATSBY_FUNCTION_OPTIONS ELSE resolved[1]

\* At least one function uses fargate (lines 124-126).
needsFargate(props) ==
    \E i \in DOMAIN props.functions :
        ResolveOptions(props, props.functions[i]).target = "FARGATE"

\* A declared resource: its CloudFormation type and its construct id.
Resource(type, id) == [type |-> type, id |-> id]

\* new lambda.Function(this, `Function-${fn.functionId}`, {...}), lines 143-159.
LambdaProps(fn, options) ==
    [id |-> "Function-" \o fn.functionId,
     timeout |-> LambdaTimeout(options, fn.functionId = SSR_ENGINE_FUNCTION_ID),
     memorySize |-> LambdaMemorySize(options, fn.functionId = SSR_ENGINE_FUNCTION_ID)]

\* A reduce callback that gives a DISABLED function the default Lambda.
GatsbyFunctionStep_DisabledAsLambda(acc, fn, props) ==
    IF acc.threw # Undefined THEN acc
    ELSE [acc EXCEPT
            !.resources = Append(@, Resource("AWS::Lambda::Function",
                                             "Function-" \o fn.functionId)),
            !.lambdas = Append(@, LambdaProps(fn, DEFAULT_GATSBY_FUNCTION_OPTIONS)),
            !.gatsbyFunctions =
                Append(@, LambdaFunction(fn.functionId, fn.name,
                                         "url-" \o fn.functionId))]

\* The reduce callback that resolves one gatsby function (lines 136-225).
\* acc carries the resources declared so far; an exception ends the reduce.
GatsbyFunctionStep(acc, fn, props) ==
    LET options == ResolveOptions(props, fn)
    IN IF acc.threw # Undefined THEN acc
       ELSE IF options.target = "DISABLED" THEN acc
       ELSE IF options.target = "LAMBDA"
       THEN [acc EXCEPT
               !.resources = Append(@, Resource("AWS::Lambda::Function",
                                                "Function-" \o fn.functionId)),
               !.lambdas = Append(@, LambdaProps(fn, options)),
               !.gatsbyFunctions =
                   Append(@, LambdaFunction(fn.functionId, fn.name,
                                            "url-" \o fn.functionId))]
       ELSE IF props.cluster = Undefined
       THEN [acc EXCEPT !.threw =
               "Cannot construct a FARGATE executor target without a cluster."]
       ELSE [acc EXCEPT
               !.resources =
                   Append(@, Resource("AWS::ECS::Service",
                                      "Service-" \o fn.functionId)),
               !.gatsbyFunctions =
                   Append(@, FargateFunction(fn.functionId, fn.name,
                                             "alb-" \o fn.functionId))]

RECURSIVE GatsbyFunctionsReduce(_, _, _)
GatsbyFunctionsReduce(acc, props, i) ==
    IF i > Len(props.functions) THEN acc
    ELSE GatsbyFunctionsReduce(GatsbyFunctionStep(acc, props.functions[i], props),
                               props, i + 1)

\* createBucketDeployments: one BucketDeployment per asset group.
BucketDeployments(assetGroups) ==
    [i \in DOMAIN assetGroups |->
        Resource("Custom::CDKBucketDeployment", "Deployment-" \o assetGroups[i])]

\* A constructor without the check ahead of the reduce.
ClusterCheck_Never(props) == Undefined

\* Check that cluster is defined if fargate needed (lines 128-133).
ClusterCheck(props) ==
    IF needsFargate(props) /\ props.cluster = Undefined
    THEN "You must provide an ECS cluster when using the FARGATE executor target."
    ELSE Undefined

\* The GatsbySite constructor: what it has declared when it returns or throws.
GatsbySiteOf(props) ==
    LET start == [threw |-> ClusterCheck(props), resources |-> <<>>,
                  lambdas |-> <<>>, gatsbyFunctions |-> <<>>]
        reduced == GatsbyFunctionsReduce(start, props, 1)
    IN IF reduced.threw # Undefined
       THEN [done |-> TRUE, threw |-> reduced.threw,
             resources |-> reduced.resources, lambdas |-> reduced.lambdas,
             gatsbyFunctions |-> <<>>, distribution |-> NoProps]
       ELSE [done |-> TRUE, threw |-> Undefined,
             resources |->
                 reduced.resources
                   \o <<Resource("AWS::S3::Bucket", "Bucket"),
                        Resource("AWS::CloudFront::Distribution", "Distribution")>>
                   \o BucketDeployments(props.assetGroups),
             lambdas |-> reduced.lambdas,
             gatsbyFunctions |-> reduced.gatsbyFunctions,
             distribution |->
                 DistributionPropsOf(reduced.gatsbyFunctions,
                                     NoCacheBehaviorOptions, NoOptions, Undefined)]

NoSite == [done |-> FALSE]

NoSiteProps ==
    [functions |-> <<>>, assetGroups |-> <<>>, ssrOptions |-> None,
     gatsbyFunctionOptions |-> None, cluster |-> Undefined]

MaxSiteFunctions == 2

\* The caller's timeout, 5 minutes, in seconds.
CallerTimeout == 300

\* The caller's memorySize, in MB.
CallerMemorySize == 2048

OptionsPool ==
    { OptionsDisabled, OptionsFargate, OptionsLambda(None, None),
      OptionsLambda(Some(CallerTimeout), None),
      OptionsLambda(None, Some(CallerMemorySize)),
      OptionsLambda(Some(CallerTimeout), Some(CallerMemorySize)) }

OptionalOptions == {None} \cup {Some(o) : o \in OptionsPool}

ManifestFunctionPool ==
    { [functionId |-> "ssr-engine", name |-> "SSR & DSG"],
      [functionId |-> "hello", name |-> "/api/hello"],
      [functionId |-> "bye", name |-> "/api/bye"] }

ManifestFunctionLists ==
    {fs \in SeqsUpTo(ManifestFunctionPool, MaxSiteFunctions) :
        \A i, j \in DOMAIN fs : i # j => fs[i].functionId # fs[j].functionId}

\* gatsbyFunctionOptions: no resolver, or one that returns options or
\* undefined for each function.
ResolverPool ==
    {None} \cup {Some(f) : f \in [{"hello", "bye"} -> OptionalOptions]}

SitePropsPool ==
    [functions : ManifestFunctionLists,
     assetGroups : {<<>>, <<"19c920">>},
     ssrOptions : OptionalOptions,
     gatsbyFunctionOptions : ResolverPool,
     cluster : {Undefined, "cluster"}]

(***************************************************************************)
(* GatsbyDistribution with disableCache and disableSearchIndexing:         *)
(* src/src/cdk/GatsbyDistribution.ts, lines 397-640.                       *)
(***************************************************************************)
\* A custom header of a response headers policy.
CustomHeader(header, value) == [header |-> header, value |-> value, override |-> TRUE]

\* An EditableBehaviorOptions of the caller, or undefined (set = FALSE):
\* cachePolicy is Undefined when left out, customHeaders are those of
\* responseHeadersPolicyProps.customHeadersBehavior ([] when left out).
NoEditableOptions ==
    [set |-> FALSE, cachePolicy |-> Undefined, customHeaders |-> <<>>]

\* new cloudfront.ResponseHeadersPolicy(this, "DefaultResponseHeadersPolicy", ...)
defaultResponseHeadersPolicy(props) ==
    [customHeaders |->
        (IF props.cacheBehaviorOptions.default.set
         THEN props.cacheBehaviorOptions.default.customHeaders ELSE <<>>)
          \o (IF props.disableCache
              THEN <<CustomHeader("Cache-Control", "no-store")>> ELSE <<>>)
          \o (IF props.disableSearchIndexing
              THEN <<CustomHeader("X-Robots-Tag", "noindex")>> ELSE <<>>)]

\* A behaviour of this distribution.  responseHeadersPolicy is None when the
\* behaviour has none.
PolicyBehavior(cachePolicy, responseHeadersPolicy, origin, functionAssociations) ==
    [cachePolicy |-> cachePolicy,
     responseHeadersPolicy |-> responseHeadersPolicy,
     viewerProtocolPolicy |-> "redirect-to-https",
     origin |-> origin,
     functionAssociations |-> functionAssociations]

\* The caller's cachePolicy for a class of behaviours, or the fallback.
CallerCachePolicy(options, fallback) ==
    IF options.set /\ options.cachePolicy # Undefined
    THEN options.cachePolicy
    ELSE fallback

\* Construct default cache behavior (lines 503-539): the spread of
\* baseDefaultBehaviorOptions comes last.
PolicyDefaultBehavior(props) ==
    PolicyBehavior(
        IF props.disableCache THEN "CACHING_DISABLED"
        ELSE CallerCachePolicy(props.cacheBehaviorOptions.default, CachePolicy),
        Some(defaultResponseHeadersPolicy(props)),
        DefaultOrigin(props.gatsbyFunctions, props.originCustomHeaders),
        IF HasSsrEngineFunction(props.gatsbyFunctions) THEN <<>>
        ELSE <<[function |-> StaticViewerRequestFn, eventType |-> "viewer-request"]>>)

\* "*page-data.json": { ...defaultBehavior, functionAssociations: [...] }
PolicyPageDataBehavior(props) ==
    [PolicyDefaultBehavior(props) EXCEPT
        !.functionAssociations =
            Append(@, [function |-> PageDataViewerRequestFn,
                       eventType |-> "viewer-request"])]

\* "/assets/*" (lines 572-583).
PolicyAssetsBehavior(props) ==
    PolicyBehavior(
        CallerCachePolicy(props.cacheBehaviorOptions.assets, Undefined),
        None,
        S3Origin(Bucket),
        <<[function |-> StaticViewerRequestFn, eventType |-> "viewer-request"]>>)

\* The behaviour of one additional function (lines 587-612).
PolicyFunctionBehavior(gatsbyFunction, props) ==
    PolicyBehavior(
        CallerCachePolicy(props.cacheBehaviorOptions.functions, CachePolicy),
        None,
        FunctionOrigin(gatsbyFunction, props.originCustomHeaders),
        <<>>)

RECURSIVE PolicyFunctionBehaviors(_, _, _, _)
PolicyFunctionBehaviors(acc, fns, i, props) ==
    IF i > Len(fns) THEN acc
    ELSE PolicyFunctionBehaviors(
             SetProperty(acc, fns[i].name, PolicyFunctionBehavior(fns[i], props)),
             fns, i + 1, props)

\* additionalBehaviors (lines 555-617).
PolicyAdditionalBehaviors(props) ==
    LET additionalFunctions ==
            SelectSeq(props.gatsbyFunctions,
                      LAMBDA f : f.id # SSR_ENGINE_FUNCTION_ID)
        pageData ==
            IF HasSsrEngineFunction(props.gatsbyFunctions)
            THEN <<[key |-> "*page-data.json",
                    value |-> PolicyPageDataBehavior(props)]>>
            ELSE <<>>
        assets == SetProperty(pageData, "/assets/*", PolicyAssetsBehavior(props))
        functions == PolicyFunctionBehaviors(assets, additionalFunctions, 1, props)
    IN SpreadMerge(functions, props.additionalBehaviors)

\* Construct distribution props (lines 541-618).
PolicyDistributionOf(props) ==
    [built |-> TRUE,
     defaultRootObject |->
         IF HasSsrEngineFunction(props.gatsbyFunctions)
         THEN Undefined ELSE "index.html",
     defaultBehavior |-> PolicyDefaultBehavior(props),
     additionalBehaviors |-> PolicyAdditionalBehaviors(props)]

NoPolicyProps ==
    [gatsbyFunctions |-> <<>>, disableCache |-> FALSE,
     disableSearchIndexing |-> FALSE,
     cacheBehaviorOptions |->
         [default |-> NoEditableOptions, assets |-> NoEditableOptions,
          functions |-> NoEditableOptions],
     additionalBehaviors |-> <<>>, originCustomHeaders |-> Undefined]

EditableOptionsPool ==
    { NoEditableOptions,
      [NoEditableOptions EXCEPT !.set = TRUE, !.cachePolicy = "customCachePolicy"] }

PolicyPropsPool ==
    [gatsbyFunctions : ExecutorLists,
     disableCache : BOOLEAN,
     disableSearchIndexing : BOOLEAN,
     cacheBehaviorOptions :
         [default : EditableOptionsPool
                      \cup {[NoEditableOptions EXCEPT
                               !.set = TRUE,
                               !.customHeaders =
                                   <<CustomHeader("X-Frame-Options", "DENY")>>]},
          assets : EditableOptionsPool,
          functions : EditableOptionsPool],
     additionalBehaviors :
         { <<>>,
           <<[key |-> "/custom/*",
              value |-> PolicyBehavior("customCachePolicy", None,
                                       HttpOrigin("custom.example.com", Undefined),
                                       <<>>)]>> },
     originCustomHeaders : {Undefined}]

(***************************************************************************)
(* The adapter: createAdapter().adapt (src/src/manifest.ts, lines 101-160),*)
(* prepareFunction (src/unnamed/part_006) and AssetBundler                 *)
(* (src/src/adapter/assets.ts).  A file is the sequence of characters of   *)
(* its path relative to the directory that holds it; file contents are     *)
(* not modelled.                                                           *)
(***************************************************************************)
RECURSIVE LastSlash(_, _)
\* The position of the last "/" of p at or before i, 0 when there is none.
LastSlash(p, i) ==
    IF i = 0 THEN 0
    ELSE IF p[i] = "/" THEN i
    ELSE LastSlash(p, i - 1)

\* path.dirname of a relative path without a trailing slash.
dirname(p) ==
    IF LastSlash(p, Len(p)) = 0 THEN <<".">>
    ELSE SubSeq(p, 1, LastSlash(p, Len(p)) - 1)

\* path.join(dir, name) for a normalised relative dir.
join(dir, name) ==
    IF dir = <<".">> THEN name ELSE dir \o <<"/">> \o name

HANDLER_JS == <<"h", "a", "n", "d", "l", "e", "r", ".", "j", "s">>

PACKAGE_JSON == <<"p", "a", "c", "k", "a", "g", "e", ".", "j", "s", "o", "n">>

DOCKERFILE == <<"D", "o", "c", "k", "e", "r", "f", "i", "l", "e">>

ALLOWED_PATTERNS ==
    << PACKAGE_JSON,
       <<".", "c", "a", "c", "h", "e", "/", "d", "a", "t", "a", "/", "*", "*", "/", "*">>,
       <<".", "c", "a", "c", "h", "e", "/", "*", "*", "/", "s", "q", "/", "*", ".", "j", "s", "o", "n">>,
       <<".", "c", "a", "c", "h", "e", "/", "*", "*", "/", "s", "l", "i", "c", "e", "-", "d", "a", "t", "a", "/", "*", "*", "/", "*">>,
       <<".", "c", "a", "c", "h", "e", "/", "q", "u", "e", "r", "y", "-", "e", "n", "g", "i", "n", "e", "/", "*", "*", "/", "*">>,
       <<"p", "u", "b", "l", "i", "c", "/", "*", "*", "/", "*">>,
       DOCKERFILE >>

\* An IFunctionDefinition of the generator.
FunctionDefinition(functionId, name, pathToEntryPoint, requiredFiles) ==
    [functionId |-> functionId, name |-> name,
     pathToEntryPoint |-> pathToEntryPoint, requiredFiles |-> requiredFiles]

SSR_LAMBDA == <<".", "c", "a", "c", "h", "e", "/", "p", "a", "g", "e", "-", "s", "s", "r", "/", "l", "a", "m", "b", "d", "a", ".", "j", "s">>

HELLO_JS == <<".", "c", "a", "c", "h", "e", "/", "f", "u", "n", "c", "t", "i", "o", "n", "s", "/", "h", "e", "l", "l", "o", ".", "j", "s">>

BYE_JS == <<".", "c", "a", "c", "h", "e", "/", "f", "u", "n", "c", "t", "i", "o", "n", "s", "/", "b", "y", "e", ".", "j", "s">>

AdapterFunctionPool ==
    << FunctionDefinition("ssr-engine", "SSR & DSG", SSR_LAMBDA,
                          << <<"p", "u", "b", "l", "i", "c", "/", "4", "0", "4", ".", "h", "t", "m", "l">>,
                             <<".", "c", "a", "c", "h", "e", "/", "d", "a", "t", "a", "/", "d", "a", "t", "a", "s", "t", "o", "r", "e", "/", "d", "a", "t", "a", ".", "m", "d", "b">>,
                             SSR_LAMBDA >>),
       FunctionDefinition("hello", "/api/hello", HELLO_JS,
                          << HELLO_JS,
                             <<".", "c", "a", "c", "h", "e", "/", "f", "u", "n", "c", "t", "i", "o", "n", "s", "/", "h", "e", "l", "l", "o", ".", "j", "s", ".", "m", "a", "p">> >>),
       FunctionDefinition("bye", "/api/bye", BYE_JS, << BYE_JS >>) >>

\* The functions manifests: the pool's functions, any of them left out.
AdapterFunctionLists ==
    { SelectIdx(AdapterFunctionPool,
                [i \in DOMAIN AdapterFunctionPool |-> i \in S], 1) :
        S \in SUBSET DOMAIN AdapterFunctionPool }

RequiredFilePool ==
    UNION { Range(AdapterFunctionPool[i].requiredFiles) :
              i \in DOMAIN AdapterFunctionPool }

MaxMissing == 1

\* The Gatsby directory: up to MaxMissing required files do not exist.
GatsbyDirs ==
    { RequiredFilePool \ missing :
        missing \in {m \in SUBSET RequiredFilePool : Cardinality(m) <= MaxMissing} }

MaxAdapterRoutes == 2

AdapterRoutePool ==
    { r \in RoutePool :
        r.type # "static" \/ r.path \in {<<"/", "a", ".", "c", "s", "s">>, <<"/", "a", ".", "t", "x", "t">>} }

AdapterRouteLists ==
    { rs \in SeqsUpTo(AdapterRoutePool, MaxAdapterRoutes) :
        \A i, j \in DOMAIN rs : i # j => rs[i].path # rs[j].path }

\* "Functions manifest often contains functions with no routes, let's filter
\* those out." (lines 129-136)
functionsWithRoutes(routes, functions) ==
    SelectSeq(functions,
              LAMBDA fn : \E i \in DOMAIN routes :
                              /\ routes[i].type = "function"
                              /\ fn.functionId = routes[i].functionId)

\* The .aws directory: whether manifest.json exists, the directories under
\* functions/, the files under functions/<functionId>/ and the files under
\* assets/<hash>/.
EmptyAdapterDir ==
    [manifestJson |-> FALSE, functionDirs |-> {}, functions |-> {}, assets |-> {}]

\* What an earlier build left behind.
StaleAdapterDir ==
    [manifestJson |-> TRUE, functionDirs |-> {"bye"},
     functions |-> {<<"bye", PACKAGE_JSON>>}, assets |-> {}]

\* The files under functions/<functionId>/.
FilesOf(dir, functionId) ==
    { f[2] : f \in {g \in dir.functions : g[1] = functionId} }

\* One round of the loop over fn.requiredFiles with every path copied,
\* existing or not.
CopyRequiredFile_Unconditional(files, fn, requiredFile, source) ==
    files \cup {<<fn.functionId, requiredFile>>}

\* One round of the loop over fn.requiredFiles (part_006, lines 23-46).
CopyRequiredFile(files, fn, requiredFile, source) ==
    IF requiredFile \notin source
    THEN files
    ELSE files \cup {<<fn.functionId, requiredFile>>}

\* prepareFunction after the loop, without the cleanup of the bundle.
FinishFunction_NoCleanup(dir, fn) ==
    LET copied == FilesOf(dir, fn.functionId)
        entryPointDir == dirname(fn.pathToEntryPoint)
        withPackage == copied \cup {PACKAGE_JSON}
        withHandler == withPackage \cup {join(entryPointDir, HANDLER_JS), DOCKERFILE}
        others == {g \in dir.functions : g[1] # fn.functionId}
    IN [threw |-> fn.pathToEntryPoint \notin copied,
        functions |-> others \cup {<<fn.functionId, f>> : f \in withHandler}]

\* prepareFunction after the loop (part_006, lines 48-114): package.json,
\* the handler (fs.copyFile fails when the entry point's directory does not
\* exist), the Dockerfile, the bundle (esbuild fails when the handler's import
\* of the entry point does not resolve) and the cleanup.
FinishFunction(dir, fn) ==
    LET copied == FilesOf(dir, fn.functionId)
        entryPointDir == dirname(fn.pathToEntryPoint)
        handler == join(entryPointDir, HANDLER_JS)
        withPackage == copied \cup {PACKAGE_JSON}
        dirExists ==
            \/ entryPointDir = <<".">>
            \/ \E f \in withPackage : StartsWith(f, entryPointDir \o <<"/">>)
        withHandler == withPackage \cup {handler, DOCKERFILE}
        allowedPatterns == ALLOWED_PATTERNS \o <<handler>>
        kept == { f \in withHandler :
                    \E n \in DOMAIN allowedPatterns :
                        minimatch(f, allowedPatterns[n]) }
        others == {g \in dir.functions : g[1] # fn.functionId}
        Put(files) == others \cup {<<fn.functionId, f>> : f \in files}
    IN IF ~dirExists
       THEN [threw |-> TRUE, functions |-> Put(withPackage)]
       ELSE IF fn.pathToEntryPoint \notin copied
            THEN [threw |-> TRUE, functions |-> Put(withHandler)]
            ELSE [threw |-> FALSE, functions |-> Put(kept)]

\* AssetBundler.bundleAssetGroup: the generator wrote every file that a
\* static route names, so each copy succeeds.
bundleAssetGroup(dir, assetGroup) ==
    [dir EXCEPT
        !.assets = @ \cup { <<assetGroup.hash, assetGroup.assets[n].objectKey>> :
                              n \in DOMAIN assetGroup.assets }]

\* A position of adapt(): fn counts the functions with routes, file the
\* required files of the current one, group the asset groups.
Position(at, fn, file, group) ==
    [at |-> at, fn |-> fn, file |-> file, group |-> group]

\* Where adapt() goes once the first k - 1 functions are prepared.
AfterFunction(k, functions, assetGroups) ==
    IF k <= Len(functions) THEN Position("ensureDir", k, 0, 0)
    ELSE IF Len(assetGroups) > 0 THEN Position("bundle", 0, 0, 1)
    ELSE Position("done", 0, 0, 0)

(***************************************************************************)
(* The CloudFront viewer-request functions: static-viewer-request-fn       *)
(* (src/unnamed/part_009, lines 334-353) and page-data-viewer-request-fn   *)
(* (src/src/assets/page-data-viewer-request-fn.js).                        *)
(***************************************************************************)
\* String.prototype.includes
includes(s, sub) ==
    \E i \in 1..(Len(s) - Len(sub) + 1) : SubSeq(s, i, i + Len(sub) - 1) = sub

\* String.prototype.replace(from, to) with a string pattern: the first
\* occurrence only.
replace(s, from, to) ==
    IF ~includes(s, from) THEN s
    ELSE LET i == CHOOSE k \in 1..(Len(s) - Len(from) + 1) :
                      /\ SubSeq(s, k, k + Len(from) - 1) = from
                      /\ \A j \in 1..(k - 1) : SubSeq(s, j, j + Len(from) - 1) # from
         IN SubSeq(s, 1, i - 1) \o to \o SubSeq(s, i + Len(from), Len(s))

ASSETS_PREFIX == <<"/", "a", "s", "s", "e", "t", "s">>

INDEX_HTML == <<"i", "n", "d", "e", "x", ".", "h", "t", "m", "l">>

\* static-viewer-request-fn, lines 337-345.
IndexRule(uri) ==
    IF EndsWith(uri, <<"/">>) THEN uri \o INDEX_HTML
    ELSE IF ~includes(uri, <<".">>) THEN uri \o <<"/">> \o INDEX_HTML
    ELSE uri

\* static-viewer-request-fn, lines 347-350.
TrimAssetsPrefix(uri) ==
    IF StartsWith(uri, ASSETS_PREFIX) THEN replace(uri, ASSETS_PREFIX, <<>>) ELSE uri

\* handler(event).uri of static-viewer-request-fn.
staticViewerRequest(uri) == TrimAssetsPrefix(IndexRule(uri))

\* handler(event).uri of page-data-viewer-request-fn.
pageDataViewerRequest(uri) == replace(uri, ASSETS_PREFIX, <<>>)

MaxSegments == 3

SegmentPool ==
    { <<"a", "s", "s", "e", "t", "s">>, <<"a", "s", "s", "e", "t", "s", "f", "o", "o">>, <<"v", "1", ".", "2">>, <<"a", "b", "o", "u", "t">>, <<"x", ".", "j", "s">>, <<"p", "a", "g", "e", "-", "d", "a", "t", "a", ".", "j", "s", "o", "n">> }

RECURSIVE JoinSegments(_, _)
JoinSegments(segments, i) ==
    IF i > Len(segments) THEN <<>>
    ELSE <<"/">> \o segments[i] \o JoinSegments(segments, i + 1)

\* Request URIs: a slash before every segment, with or without a trailing one.
UriPool ==
    UNION { { JoinSegments(segments, 1) \o tail : tail \in {<<>>, <<"/">>} } :
              segments \in SeqsUpTo(SegmentPool, MaxSegments) } \ {<<>>}

PAGE_DATA_JSON == <<"p", "a", "g", "e", "-", "d", "a", "t", "a", ".", "j", "s", "o", "n">>

\* The requests each function can see: the static one sits on the default
\* behaviour and on "/assets/*", the page-data one on "*page-data.json".
ViewerRequests ==
    { [fn |-> "static", uri |-> u, handled |-> FALSE, out |-> <<>>] : u \in UriPool }
      \cup { [fn |-> "pageData", uri |-> u, handled |-> FALSE, out |-> <<>>] :
               u \in {v \in UriPool : EndsWith(v, PAGE_DATA_JSON)} }

NoViewerRequest == [fn |-> "none", uri |-> <<>>, handled |-> FALSE, out |-> <<>>]

(***************************************************************************)
(* The deploy command: src/src/cli/deploy.ts.                              *)
(***************************************************************************)
\* objectKeyFromRoute(route), lines 169-175.
objectKeyFromRoute(route) ==
    IF StartsWith(route.filePath, PUBLIC_PREFIX)
    THEN replace(route.filePath, PUBLIC_PREFIX, <<>>)
    ELSE route.filePath

\* manifest.routes.filter(({ type }) => "static" === type), lines 34-36.
staticRoutesOf(routes) == SelectSeq(routes, LAMBDA r : r.type = "static")

\* staticRoutes.map((route) => objectKeyFromRoute(route)), line 101.
routeKeysOf(routes) ==
    [i \in DOMAIN staticRoutesOf(routes) |-> objectKeyFromRoute(staticRoutesOf(routes)[i])]

\* The keys a bucket can hold, in the order S3 lists them.
KeyOrder ==
    << <<"4", "0", "4", ".", "h", "t", "m", "l">>,
       <<"a", ".", "c", "s", "s">>,
       <<"a", ".", "t", "x", "t">>,
       <<"o", "l", "d", "/", "i", "n", "d", "e", "x", ".", "h", "t", "m", "l">>,
       <<"s", "t", "a", "l", "e", ".", "j", "s">> >>

\* The number of keys of one page of ListObjectsV2 (1000 in S3).
PageSize == 2

\* The answer of S3 to ListObjectsV2 with the given ContinuationToken: a
\* token is the number of keys before the page, 0 stands for no token.  The
\* answer repeats the request's token as ContinuationToken and names the next
\* page in NextContinuationToken.
ListObjectsV2(keys, token) ==
    LET listing == SelectSeq(KeyOrder, LAMBDA k : k \in keys)
        last == IF token + PageSize < Len(listing) THEN token + PageSize ELSE Len(listing)
    IN [hasContents |-> token < Len(listing),
        Contents |-> SubSeq(listing, token + 1, last),
        ContinuationToken |-> token,
        NextContinuationToken |-> IF last < Len(listing) THEN last ELSE 0]

RECURSIVE getBucketKeysFrom(_, _, _)
\* The loop of getBucketKeys, lines 145-161.
getBucketKeysFrom(keys, collected, token) ==
    LET result == ListObjectsV2(keys, token)
    IN IF ~result.hasContents THEN collected
       ELSE IF result.ContinuationToken = 0
            THEN collected \o result.Contents
            ELSE getBucketKeysFrom(keys, collected \o result.Contents,
                                   result.ContinuationToken)

\* getBucketKeys({ bucketName })
getBucketKeys(keys) == getBucketKeysFrom(keys, <<>>, 0)

\* The filter of cleanBucket left out.
bucketKeysWithoutRoute_Unfiltered(bucketKeys, routeKeys) == bucketKeys

\* bucketKeys.filter((key) => !routeKeys.includes(key)), lines 106-108.
bucketKeysWithoutRoute(bucketKeys, routeKeys) ==
    SelectSeq(bucketKeys, LAMBDA key : key \notin Range(routeKeys))

\* The number of mapper calls pMap keeps in flight (concurrency: 100).
MaxInFlight == 2

\* pMap at its start: the first MaxInFlight items are in flight.
pMapStart(n) ==
    [i \in 1..n |-> IF i <= MaxInFlight THEN "inflight" ELSE "pending"]

\* pMap when a mapper call has resolved: the next item starts.
pMapNext(status) ==
    IF \E i \in DOMAIN status : status[i] = "pending"
    THEN [status EXCEPT
             ![CHOOSE i \in DOMAIN status :
                  /\ status[i] = "pending"
                  /\ \A j \in 1..(i - 1) : status[j] # "pending"] = "inflight"]
    ELSE status

Settled(status) == \A i \in DOMAIN status : status[i] = "done"

\* The position of deploy(), the uploads of deployRoutes and the deletes of
\* cleanBucket.
DeployState(at, upload, toDelete, del) ==
    [at |-> at, upload |-> upload, toDelete |-> toDelete, del |-> del]

MaxDeployRoutes == 3

DeployRoutePool ==
    { r \in RoutePool :
        \/ r.path \in {<<"/", "a", ".", "c", "s", "s">>, <<"/", "a", ".", "t", "x", "t">>, <<"/", "b", ".", "t", "x", "t">>}
        \/ r.type = "function" /\ r.functionId = "hello" }

DeployRouteLists ==
    { rs \in SeqsUpTo(DeployRoutePool, MaxDeployRoutes) :
        \A i, j \in DOMAIN rs : i # j => rs[i].path # rs[j].path }

\* The machines that a specification leaves alone stay as they start.
IdleManifest ==
    /\ routesManifest = <<>>
    /\ functionsManifest = <<>>
    /\ cacheControl = <<>>
    /\ manifest = NoManifest

IdleDistribution ==
    /\ gatsbyFunctions = <<>>
    /\ cacheBehaviorOptions = NoCacheBehaviorOptions
    /\ distributionOptions = NoOptions
    /\ originCustomHeaders = Undefined
    /\ distributionProps = NoProps

IdleSite ==
    /\ siteProps = NoSiteProps
    /\ site = NoSite

IdlePolicy ==
    /\ policyProps = NoPolicyProps
    /\ policyDistribution = NoProps

IdleViewer == viewerRequest = NoViewerRequest

IdleDeploy ==
    /\ manifestJson = <<>>
    /\ s3Bucket = {}
    /\ deployState = DeployState("idle", <<>>, <<>>, <<>>)

IdleAdapter ==
    /\ gatsbyDir = {}
    /\ adapterDir = EmptyAdapterDir
    /\ adaptPc = Position("idle", 0, 0, 0)

InitDistribution ==
    /\ IdleManifest
    /\ IdleSite
    /\ IdlePolicy
    /\ IdleAdapter
    /\ IdleViewer
    /\ IdleDeploy
    /\ gatsbyFunctions \in ExecutorLists
    /\ cacheBehaviorOptions \in CacheBehaviorOptionsPool
    /\ distributionOptions \in DistributionOptionsPool
    /\ originCustomHeaders \in OriginCustomHeadersPool
    /\ distributionProps = NoProps

\* The GatsbyDistribution constructor, up to new cloudfront.Distribution.
ConstructDistribution ==
    /\ ~distributionProps.built
    /\ distributionProps' =
          DistributionPropsOf(gatsbyFunctions, cacheBehaviorOptions,
                              distributionOptions, originCustomHeaders)
    /\ UNCHANGED <<gatsbyFunctions, cacheBehaviorOptions, distributionOptions,
                   originCustomHeaders>>
    /\ UNCHANGED <<manifestVars, siteVars, policyVars, adapterVars,
                   viewerVars, deployVars>>

NextDistribution == ConstructDistribution

SpecDistribution == InitDistribution /\ [][NextDistribution]_vars

Init ==
    /\ routesManifest \in RouteLists
    /\ functionsManifest \in FunctionsPool
    /\ cacheControl \in RuleTables
    /\ manifest = NoManifest
    /\ IdleDistribution
    /\ IdleSite
    /\ IdlePolicy
    /\ IdleAdapter
    /\ IdleViewer
    /\ IdleDeploy

\* The Manifest constructor (lines 84-106).
Construct ==
    /\ ~manifest.built
    /\ \E id \in BuildIds :
          manifest' = ManifestOf(id, routesManifest, functionsManifest, cacheControl)
    /\ UNCHANGED <<routesManifest, functionsManifest, cacheControl>>
    /\ UNCHANGED <<distributionVars, siteVars, policyVars, adapterVars,
                   viewerVars, deployVars>>

Next == Construct

Spec == Init /\ [][Next]_vars

InitSite ==
    /\ IdleManifest
    /\ IdleDistribution
    /\ IdlePolicy
    /\ IdleAdapter
    /\ IdleViewer
    /\ IdleDeploy
    /\ siteProps \in SitePropsPool
    /\ site = NoSite

\* new GatsbySite(scope, id, props)
ConstructSite ==
    /\ ~site.done
    /\ site' = GatsbySiteOf(siteProps)
    /\ UNCHANGED <<siteProps, manifestVars, distributionVars, policyVars, adapterVars,
                   viewerVars, deployVars>>

NextSite == ConstructSite

SpecSite == InitSite /\ [][NextSite]_vars

InitPolicy ==
    /\ IdleManifest
    /\ IdleDistribution
    /\ IdleSite
    /\ IdleAdapter
    /\ IdleViewer
    /\ IdleDeploy
    /\ policyProps \in PolicyPropsPool
    /\ policyDistribution = NoProps

\* The GatsbyDistribution constructor, up to new cloudfront.Distribution.
ConstructPolicyDistribution ==
    /\ ~policyDistribution.built
    /\ policyDistribution' = PolicyDistributionOf(policyProps)
    /\ UNCHANGED <<policyProps, manifestVars, distributionVars, siteVars, adapterVars,
                   viewerVars, deployVars>>

NextPolicy == ConstructPolicyDistribution

SpecPolicy == InitPolicy /\ [][NextPolicy]_vars

InitAdapter ==
    /\ routesManifest \in AdapterRouteLists
    /\ functionsManifest \in AdapterFunctionLists
    /\ cacheControl = <<>>
    /\ manifest = NoManifest
    /\ IdleDistribution
    /\ IdleSite
    /\ IdlePolicy
    /\ IdleViewer
    /\ IdleDeploy
    /\ gatsbyDir \in GatsbyDirs
    /\ adapterDir = StaleAdapterDir
    /\ adaptPc = Position("emptyDir", 0, 0, 0)

\* The function that prepareFunction is working on.
CurrentFunction == functionsWithRoutes(routesManifest, functionsManifest)[adaptPc.fn]

adapterInputs == <<routesManifest, functionsManifest, cacheControl, gatsbyDir>>

\* await fs.emptyDir(adapterDir)
EmptyDir ==
    /\ adaptPc.at = "emptyDir"
    /\ adapterDir' = EmptyAdapterDir
    /\ adaptPc' = Position("manifest", 0, 0, 0)
    /\ UNCHANGED <<adapterInputs, manifest, distributionVars, siteVars, policyVars,
                   viewerVars, deployVars>>

\* new Manifest(...) and the write of manifest.json (lines 117-127).
WriteManifest ==
    /\ adaptPc.at = "manifest"
    /\ \E id \in BuildIds :
          manifest' = ManifestOf(id, routesManifest, functionsManifest, cacheControl)
    /\ adapterDir' = [adapterDir EXCEPT !.manifestJson = TRUE]
    /\ adaptPc' = AfterFunction(1, functionsWithRoutes(routesManifest, functionsManifest),
                                manifest'.assetGroups)
    /\ UNCHANGED <<adapterInputs, distributionVars, siteVars, policyVars,
                   viewerVars, deployVars>>

\* prepareFunction: await fs.ensureDir(functionDir)
EnsureFunctionDir ==
    /\ adaptPc.at = "ensureDir"
    /\ adapterDir' = [adapterDir EXCEPT !.functionDirs = @ \cup {CurrentFunction.functionId}]
    /\ adaptPc' = [adaptPc EXCEPT
                      !.at = IF Len(CurrentFunction.requiredFiles) > 0
                             THEN "copy" ELSE "finish",
                      !.file = 1]
    /\ UNCHANGED <<adapterInputs, manifest, distributionVars, siteVars, policyVars,
                   viewerVars, deployVars>>

\* prepareFunction: one round of the loop over fn.requiredFiles.
CopyFile ==
    /\ adaptPc.at = "copy"
    /\ adapterDir' =
          [adapterDir EXCEPT
              !.functions = CopyRequiredFile(@, CurrentFunction,
                                CurrentFunction.requiredFiles[adaptPc.file],
                                gatsbyDir)]
    /\ adaptPc' = IF adaptPc.file < Len(CurrentFunction.requiredFiles)
                  THEN [adaptPc EXCEPT !.file = @ + 1]
                  ELSE [adaptPc EXCEPT !.at = "finish"]
    /\ UNCHANGED <<adapterInputs, manifest, distributionVars, siteVars, policyVars,
                   viewerVars, deployVars>>

\* prepareFunction: from the entry point to the cleanup; an error ends adapt().
Finish ==
    /\ adaptPc.at = "finish"
    /\ LET result == FinishFunction(adapterDir, CurrentFunction)
       IN /\ adapterDir' = [adapterDir EXCEPT !.functions = result.functions]
          /\ adaptPc' = IF result.threw
                        THEN [adaptPc EXCEPT !.at = "threw"]
                        ELSE AfterFunction(adaptPc.fn + 1,
                                 functionsWithRoutes(routesManifest, functionsManifest),
                                 manifest.assetGroups)
    /\ UNCHANGED <<adapterInputs, manifest, distributionVars, siteVars, policyVars,
                   viewerVars, deployVars>>

\* await assetBundler.bundleAssetGroup(assetGroup)
BundleAssetGroup ==
    /\ adaptPc.at = "bundle"
    /\ adapterDir' = bundleAssetGroup(adapterDir, manifest.assetGroups[adaptPc.group])
    /\ adaptPc' = IF adaptPc.group < Len(manifest.assetGroups)
                  THEN [adaptPc EXCEPT !.group = @ + 1]
                  ELSE Position("done", 0, 0, 0)
    /\ UNCHANGED <<adapterInputs, manifest, distributionVars, siteVars, policyVars,
                   viewerVars, deployVars>>

RECURSIVE TextOf(_, _)
\* The string whose characters are chars[i], chars[i + 1], ...
TextOf(chars, i) ==
    IF i > Len(chars) THEN "" ELSE chars[i] \o TextOf(chars, i + 1)

\* The props of a GatsbySite over the output of the build, every option
\* left to its default.
SitePropsOfBuild ==
    [functions |-> manifest.functions,
     assetGroups |-> [n \in DOMAIN manifest.assetGroups |-> TextOf(manifest.assetGroups[n].hash, 1)],
     ssrOptions |-> None,
     gatsbyFunctionOptions |-> None,
     cluster |-> Undefined]

\* The second phase: the GatsbySite constructor reads manifest.json of the
\* finished build (src/unnamed/part_011, lines 96-121).
ConstructSiteFromBuild ==
    /\ adaptPc.at = "done"
    /\ ~site.done
    /\ siteProps' = SitePropsOfBuild
    /\ site' = GatsbySiteOf(SitePropsOfBuild)
    /\ UNCHANGED <<manifestVars, adapterVars, distributionVars, policyVars,
                   viewerVars, deployVars>>

NextAdapter ==
    \/ EmptyDir
    \/ WriteManifest
    \/ EnsureFunctionDir
    \/ CopyFile
    \/ Finish
    \/ BundleAssetGroup
    \/ ConstructSiteFromBuild

SpecAdapter == InitAdapter /\ [][NextAdapter]_vars

InitViewer ==
    /\ IdleManifest
    /\ IdleDistribution
    /\ IdleSite
    /\ IdlePolicy
    /\ IdleAdapter
    /\ IdleDeploy
    /\ viewerRequest \in ViewerRequests

\* CloudFront runs static-viewer-request-fn on the request.
StaticViewerRequest ==
    /\ viewerRequest.fn = "static"
    /\ ~viewerRequest.handled
    /\ viewerRequest' = [viewerRequest EXCEPT
                            !.handled = TRUE,
                            !.out = staticViewerRequest(viewerRequest.uri)]
    /\ UNCHANGED <<manifestVars, distributionVars, siteVars, policyVars, adapterVars,
                   deployVars>>

\* CloudFront runs page-data-viewer-request-fn on the request.
PageDataViewerRequest ==
    /\ viewerRequest.fn = "pageData"
    /\ ~viewerRequest.handled
    /\ viewerRequest' = [viewerRequest EXCEPT
                            !.handled = TRUE,
                            !.out = pageDataViewerRequest(viewerRequest.uri)]
    /\ UNCHANGED <<manifestVars, distributionVars, siteVars, policyVars, adapterVars,
                   deployVars>>

NextViewer == StaticViewerRequest \/ PageDataViewerRequest

SpecViewer == InitViewer /\ [][NextViewer]_vars

InitDeploy ==
    /\ IdleManifest
    /\ IdleDistribution
    /\ IdleSite
    /\ IdlePolicy
    /\ IdleAdapter
    /\ IdleViewer
    /\ manifestJson \in DeployRouteLists
    /\ s3Bucket \in SUBSET Range(KeyOrder)
    /\ deployState = DeployState("start", <<>>, <<>>, <<>>)

deployRest == <<manifestVars, distributionVars, siteVars, policyVars, adapterVars,
                viewerVars>>

\* deploy() reads manifest.json and deployRoutes starts pMap (lines 26-40, 87).
ReadManifest ==
    /\ deployState.at = "start"
    /\ deployState' =
          DeployState(IF Len(staticRoutesOf(manifestJson)) = 0 THEN "list" ELSE "upload",
                      pMapStart(Len(staticRoutesOf(manifestJson))), <<>>, <<>>)
    /\ UNCHANGED <<manifestJson, s3Bucket, deployRest>>

\* deployRoute: the PutObject of an upload in flight succeeds.  pMap starts
\* the next upload unless it has already rejected.
PutObjectSucceeds ==
    \E i \in DOMAIN deployState.upload :
        /\ deployState.upload[i] = "inflight"
        /\ s3Bucket' = s3Bucket \cup {routeKeysOf(manifestJson)[i]}
        /\ LET upload == [deployState.upload EXCEPT ![i] = "done"]
           IN deployState' =
                 IF deployState.at # "upload"
                 THEN [deployState EXCEPT !.upload = upload]
                 ELSE [deployState EXCEPT
                          !.upload = pMapNext(upload),
                          !.at = IF Settled(upload) THEN "list" ELSE "upload"]
        /\ UNCHANGED <<manifestJson, deployRest>>

\* deployRoute: reading the file or the PutObject fails.  pMap rejects, and
\* with it deployRoutes and deploy.
PutObjectFails ==
    \E i \in DOMAIN deployState.upload :
        /\ deployState.upload[i] = "inflight"
        /\ deployState' = [deployState EXCEPT !.upload[i] = "failed", !.at = "failed"]
        /\ UNCHANGED <<manifestJson, s3Bucket, deployRest>>

\* cleanBucket up to the start of its pMap (lines 101-132).
ListBucket ==
    /\ deployState.at = "list"
    /\ LET toDelete == bucketKeysWithoutRoute(getBucketKeys(s3Bucket),
                                              routeKeysOf(manifestJson))
       IN deployState' =
             [deployState EXCEPT
                 !.at = IF Len(toDelete) = 0 THEN "done" ELSE "delete",
                 !.toDelete = toDelete,
                 !.del = pMapStart(Len(toDelete))]
    /\ UNCHANGED <<manifestJson, s3Bucket, deployRest>>

\* getBucketKeys: the ListObjectsV2 request fails.
ListBucketFails ==
    /\ deployState.at = "list"
    /\ deployState' = [deployState EXCEPT !.at = "failed"]
    /\ UNCHANGED <<manifestJson, s3Bucket, deployRest>>

\* deleteObject: the DeleteObject of a delete in flight succeeds.
DeleteObjectSucceeds ==
    \E j \in DOMAIN deployState.del :
        /\ deployState.del[j] = "inflight"
        /\ s3Bucket' = s3Bucket \ {deployState.toDelete[j]}
        /\ LET del == [deployState.del EXCEPT ![j] = "done"]
           IN deployState' =
                 IF deployState.at # "delete"
                 THEN [deployState EXCEPT !.del = del]
                 ELSE [deployState EXCEPT
                          !.del = pMapNext(del),
                          !.at = IF Settled(del) THEN "done" ELSE "delete"]
        /\ UNCHANGED <<manifestJson, deployRest>>

\* deleteObject: the DeleteObject fails.
DeleteObjectFails ==
    \E j \in DOMAIN deployState.del :
        /\ deployState.del[j] = "inflight"
        /\ deployState' = [deployState EXCEPT !.del[j] = "failed", !.at = "failed"]
        /\ UNCHANGED <<manifestJson, s3Bucket, deployRest>>

NextDeploy ==
    \/ ReadManifest
    \/ PutObjectSucceeds
    \/ PutObjectFails
    \/ ListBucket
    \/ ListBucketFails
    \/ DeleteObjectSucceeds
    \/ DeleteObjectFails

SpecDeploy == InitDeploy /\ [][NextDeploy]_vars

(***************************************************************************)
(* Properties of the manifest (specification Spec).                        *)
(***************************************************************************)
ModelPatterns ==
    {DEFAULT_CACHE_CONTROL_MAP[i].key : i \in DOMAIN DEFAULT_CACHE_CONTROL_MAP}
      \cup {r.key : r \in RulePool}

\* minimatch over the paths and patterns of the model, as a table.
Matches ==
    [path \in {r.path : r \in RoutePool}, pattern \in ModelPatterns
        |-> minimatch(path, pattern)] @@ <<>>

IMMUTABLE_TEXT == "public, max-age=31536000, immutable"

NO_CACHE_TEXT == "public, max-age=0, must-revalidate"

DefaultPatterns ==
    {DEFAULT_CACHE_CONTROL_MAP[i].key : i \in DOMAIN DEFAULT_CACHE_CONTROL_MAP}

\* The non-function routes of the input, by position.
NonFunctionRoutes == {i \in DOMAIN routesManifest : routesManifest[i].type # "function"}

StaticRoutes == {i \in DOMAIN routesManifest : routesManifest[i].type = "static"}

\* The values of the headers of a resolved route that are named exactly k.
ValuesOf(headers, k) == {headers[n].value : n \in {m \in DOMAIN headers : headers[m].key = k}}

\* Every (group, position) that holds an asset in the manifest.
AssetSlots ==
    {<<g, k>> \in (DOMAIN manifest.assetGroups) \X (1..MaxRoutes) :
        k \in DOMAIN manifest.assetGroups[g].assets}

AssetAt(slot) == manifest.assetGroups[slot[1]].assets[slot[2]]

\* The content type of every file path of the model, as a table.
ContentTypes ==
    [filePath \in {r.filePath : r \in RoutePool} |-> ContentTypeOf(filePath)]
      @@ <<>>

\* C1: after mapRoute, no two headers of a non-function route have the same
\* key when the keys are compared without regard to letter case.
C1_HeaderKeysUniqueIgnoringCase ==
    manifest.built =>
        \A i \in NonFunctionRoutes :
            LET hs == manifest.routes[i].headers
            IN \A m, n \in DOMAIN hs :
                   m # n => toLowerCase(hs[m].key) # toLowerCase(hs[n].key)

\* C2: the assets of all groups together correspond one to one to the static
\* routes: every file path is held by as many assets as there are static
\* routes with that file path (so none is left out, none is there twice and
\* no other route contributes), each asset carries the object key of its file
\* path, and the groups have distinct hashes, so that an asset is in one group.
C2_AssetsMatchStaticRoutes ==
    manifest.built =>
        /\ \A fp \in {routesManifest[i].filePath : i \in StaticRoutes}
                       \cup {AssetAt(s).filePath : s \in AssetSlots} :
              Cardinality({s \in AssetSlots : AssetAt(s).filePath = fp})
                = Cardinality({i \in StaticRoutes : routesManifest[i].filePath = fp})
        /\ Cardinality(AssetSlots) = Cardinality(StaticRoutes)
        /\ \A g, h \in DOMAIN manifest.assetGroups :
              g # h => manifest.assetGroups[g].hash # manifest.assetGroups[h].hash
        /\ \A g \in DOMAIN manifest.assetGroups :
              manifest.assetGroups[g].assets # <<>>

C2_Witness ==
    /\ manifest.built
    /\ \E i, j \in StaticRoutes :
          i # j /\ routesManifest[i].filePath = routesManifest[j].filePath
    /\ Cardinality(AssetSlots) = 2

\* C3: static routes with the same derived content type and the same resolved
\* cache-control value are in the same group: one group holds the assets of
\* all of them and carries that content type and cache-control.
C3_SameKeySameGroup ==
    manifest.built =>
        \A i \in StaticRoutes :
            LET ct == ContentTypes[manifest.routes[i].filePath]
                cc == FindCacheControl(manifest.routes[i].headers)
                class == {j \in StaticRoutes :
                            /\ ContentTypes[manifest.routes[j].filePath] = ct
                            /\ FindCacheControl(manifest.routes[j].headers) = cc}
            IN \E g \in DOMAIN manifest.assetGroups :
                  \A j \in class :
                     LET fp == manifest.routes[j].filePath
                     IN Cardinality({k \in DOMAIN manifest.assetGroups[g].assets :
                                        manifest.assetGroups[g].assets[k].filePath = fp})
                          = Cardinality({n \in class : manifest.routes[n].filePath = fp})

\* /a.css and /b.css resolve to the same cache-control and share one group.
C3_Witness ==
    /\ manifest.built
    /\ Len(routesManifest) = 2
    /\ routesManifest[1].path = <<"/", "a", ".", "c", "s", "s">>
    /\ routesManifest[2].path = <<"/", "b", ".", "c", "s", "s">>
    /\ Len(manifest.assetGroups) = 1
    /\ Len(manifest.assetGroups[1].assets) = 2

\* C4: every asset of a group comes from a static route whose derived content
\* type is the group's contentType and whose resolved cache-control value is
\* the group's cacheControl.
C4_GroupsHomogeneous ==
    manifest.built =>
        \A s \in AssetSlots :
            \E i \in StaticRoutes :
                /\ manifest.routes[i].filePath = AssetAt(s).filePath
                /\ ContentTypes[manifest.routes[i].filePath]
                     = manifest.assetGroups[s[1]].contentType
                /\ FindCacheControl(manifest.routes[i].headers)
                     = manifest.assetGroups[s[1]].cacheControl

RootLevelFile(path) ==
    /\ Len(path) > 2
    /\ path[1] = "/"
    /\ path[2] # "."
    /\ \A n \in 2..Len(path) : path[n] # "/"

BuiltInExpected(path) ==
    IF RootLevelFile(path)
       /\ (\/ EndsWith(path, <<".", "j", "s">>)
           \/ EndsWith(path, <<".", "j", "s", ".", "m", "a", "p">>)
           \/ EndsWith(path, <<".", "c", "s", "s">>))
    THEN IMMUTABLE_TEXT
    ELSE IF \/ path = DEFAULT_CACHE_CONTROL_MAP[4].key
            \/ (/\ StartsWith(path, <<"/", "~", "p", "a", "r", "t", "y", "t", "o", "w", "n", "/">>)
                /\ \A n \in 1..(Len(path) - 1) : ~(path[n] = "/" /\ path[n + 1] = "."))
         THEN NO_CACHE_TEXT
         ELSE Undefined

\* C6: with no caller rules, a static route on a path that a built-in pattern
\* covers has exactly one cache-control header, with that pattern's value.
C6_DefaultRulesApply ==
    (manifest.built /\ cacheControl = <<>>) =>
        \A i \in StaticRoutes :
            BuiltInExpected(routesManifest[i].path) # Undefined =>
                ValuesOf(manifest.routes[i].headers, CACHE_CONTROL)
                  = {BuiltInExpected(routesManifest[i].path)}

\* /app-abc123.js, whose generated cache-control is replaced by the built-in,
\* next to /page-data/app-data.json.
C6_Witness ==
    /\ manifest.built
    /\ cacheControl = <<>>
    /\ Len(routesManifest) = 2
    /\ routesManifest[1].path = DEFAULT_CACHE_CONTROL_MAP[4].key
    /\ EndsWith(routesManifest[2].path, <<"1", "2", "3", ".", "j", "s">>)
    /\ ValuesOf(manifest.routes[1].headers, CACHE_CONTROL) = {NO_CACHE_TEXT}
    /\ ValuesOf(manifest.routes[2].headers, CACHE_CONTROL) = {IMMUTABLE_TEXT}

\* The position of the last rule of the merged table that matches path, or 0.
LastApplied(path) ==
    LET merged == CacheControlMap(cacheControl)
        hits == {n \in DOMAIN merged : Matches[path, merged[n].key]}
    IN IF hits = {} THEN 0 ELSE CHOOSE n \in hits : \A m \in hits : m <= n

\* C7 as stated: whenever a built-in pattern matches the path of a
\* non-function route, the route's cache-control value is the built-in's,
\* whatever the caller's table holds.
C7_BuiltInAlwaysWins ==
    manifest.built =>
        \A i \in NonFunctionRoutes :
            BuiltInExpected(routesManifest[i].path) # Undefined =>
                ValuesOf(manifest.routes[i].headers, CACHE_CONTROL)
                  = {BuiltInExpected(routesManifest[i].path)}

\* The caller's table shadows the built-in rule for path: every built-in
\* pattern that matches path is also a key of the caller's table, and a
\* caller rule under another pattern matches path and comes after them.
Shadowed(path) ==
    LET own == {p \in DefaultPatterns : Matches[path, p]}
        at(p) == CHOOSE n \in DOMAIN cacheControl : cacheControl[n].key = p
    IN /\ \A p \in own : \E n \in DOMAIN cacheControl : cacheControl[n].key = p
       /\ \E n \in DOMAIN cacheControl :
             /\ cacheControl[n].key \notin DefaultPatterns
             /\ Matches[path, cacheControl[n].key]
             /\ \A p \in own : at(p) < n

\* C7, amended: the built-in value wins unless the caller's table shadows
\* the built-in rule for that path.
C7_BuiltInWinsUnlessShadowed ==
    manifest.built =>
        \A i \in NonFunctionRoutes :
            (/\ BuiltInExpected(routesManifest[i].path) # Undefined
             /\ ~Shadowed(routesManifest[i].path)) =>
                ValuesOf(manifest.routes[i].headers, CACHE_CONTROL)
                  = {BuiltInExpected(routesManifest[i].path)}

\* A caller rule under another pattern and one under the built-in's own
\* pattern both match the route, and the built-in value is the result.
C7_Witness ==
    /\ manifest.built
    /\ Len(cacheControl) = 2
    /\ cacheControl[1].key = <<"/", "*", "*">>
    /\ cacheControl[2].key = DEFAULT_CACHE_CONTROL_MAP[1].key
    /\ \E i \in NonFunctionRoutes :
          /\ Matches[routesManifest[i].path, cacheControl[1].key]
          /\ Matches[routesManifest[i].path, cacheControl[2].key]
          /\ ValuesOf(manifest.routes[i].headers, CACHE_CONTROL) = {IMMUTABLE_TEXT}

\* A caller rule written as a bare Cache-Control string, as in the README.
IsLiteralRule(rule) ==
    /\ rule.value.kind = "string"
    /\ rule.value.value \notin {"IMMUTABLE", "NO_CACHE"}

\* C8: a non-function route whose last applied rule is a caller rule given
\* as a literal Cache-Control string has a cache-control header with exactly
\* that string as its value.
C8_LiteralStringUsedVerbatim ==
    manifest.built =>
        \A i \in NonFunctionRoutes :
            LET merged == CacheControlMap(cacheControl)
                last == LastApplied(routesManifest[i].path)
            IN (/\ last # 0
                /\ merged[last].key \notin DefaultPatterns
                /\ IsLiteralRule(merged[last])) =>
                   ValuesOf(manifest.routes[i].headers, CACHE_CONTROL)
                     = {merged[last].value.value}

\* What a route that no rule matches is claimed to keep: the generated
\* headers outside the strip list, each key once, in the order of first
\* occurrence, with the value of the key's last occurrence.
KeptKeys(headers) ==
    {headers[n].key : n \in DOMAIN headers} \ Range(REMOVE_GATSBY_HEADERS)

FirstAt(headers, k) ==
    CHOOSE n \in DOMAIN headers :
        headers[n].key = k /\ \A m \in 1..(n - 1) : headers[m].key # k

LastValue(headers, k) ==
    headers[CHOOSE n \in DOMAIN headers :
                headers[n].key = k
                  /\ \A m \in (n + 1)..Len(headers) : headers[m].key # k].value

\* C9: a non-function route that no rule of the merged table matches gets no
\* cache-control header added: its headers are the generated ones without
\* the strip-list keys and with duplicates collapsed.
C9_NoMatchKeepsGeneratedHeaders ==
    manifest.built =>
        \A i \in NonFunctionRoutes :
            LastApplied(routesManifest[i].path) = 0 =>
                LET in == routesManifest[i].headers
                    out == manifest.routes[i].headers
                IN /\ {out[n].key : n \in DOMAIN out} = KeptKeys(in)
                   /\ Len(out) = Cardinality(KeptKeys(in))
                   /\ \A n \in DOMAIN out : out[n].value = LastValue(in, out[n].key)
                   /\ \A m, n \in DOMAIN out :
                         m < n => FirstAt(in, out[m].key) < FirstAt(in, out[n].key)

\* /a.txt with no rule matching: x-frame-options is stripped, the repeated
\* generated cache-control is kept once with its last value.
C9_Witness ==
    /\ manifest.built
    /\ \E i \in NonFunctionRoutes :
          /\ LastApplied(routesManifest[i].path) = 0
          /\ Len(routesManifest[i].headers) = 4
          /\ Len(manifest.routes[i].headers) = 2
          /\ ValuesOf(manifest.routes[i].headers, CACHE_CONTROL) = {IMMUTABLE_TEXT}

(***************************************************************************)
(* Properties of the routing plan (specification SpecDistribution).        *)
(***************************************************************************)
\* The executors with the SSR-engine id, by position (at most one).
SsrExecutors == {i \in DOMAIN gatsbyFunctions : gatsbyFunctions[i].id = "ssr-engine"}

\* The functions associated with a behaviour.
AssociatedFunctions(behavior) ==
    {behavior.functionAssociations[n].function :
        n \in DOMAIN behavior.functionAssociations}

StaticDefault ==
    /\ distributionProps.defaultBehavior.origin.kind = "S3Origin"
    /\ distributionProps.defaultBehavior.origin.target = "bucket"
    /\ "StaticViewerRequestFunction"
          \in AssociatedFunctions(distributionProps.defaultBehavior)
    /\ distributionProps.defaultRootObject = "index.html"

SsrDefault ==
    \A i \in SsrExecutors :
        /\ gatsbyFunctions[i].target = "LAMBDA" =>
              /\ distributionProps.defaultBehavior.origin.kind = "HttpOrigin"
              /\ distributionProps.defaultBehavior.origin.target
                    = gatsbyFunctions[i].lambdaFunctionUrlDomain
        /\ gatsbyFunctions[i].target = "FARGATE" =>
              /\ distributionProps.defaultBehavior.origin.kind = "LoadBalancerV2Origin"
              /\ distributionProps.defaultBehavior.origin.target
                    = gatsbyFunctions[i].loadBalancer

\* C10 as stated: the default behaviour is the static one (bucket origin,
\* static viewer-request rewrite, defaultRootObject index.html) exactly when
\* no executor is the SSR engine, and otherwise its origin is the SSR
\* executor's function URL domain or load balancer.
C10_DefaultOriginFromExecutors ==
    distributionProps.built =>
        /\ StaticDefault <=> SsrExecutors = {}
        /\ SsrDefault

\* The caller gave the default behaviour a viewer-request function.
CustomDefaultViewerRequest ==
    /\ cacheBehaviorOptions.default.set
    /\ cacheBehaviorOptions.default.hasFunctionAssociations
    /\ \E n \in DOMAIN cacheBehaviorOptions.default.functionAssociations :
          cacheBehaviorOptions.default.functionAssociations[n].eventType
            = "viewer-request"

\* C10, amended: the origin and defaultRootObject are as stated; the static
\* viewer-request rewrite is on the static default behaviour unless the
\* caller gave the default behaviour a viewer-request function of its own.
C10_DefaultOriginAmended ==
    distributionProps.built =>
        /\ (/\ distributionProps.defaultBehavior.origin.kind = "S3Origin"
            /\ distributionProps.defaultBehavior.origin.target = "bucket"
            /\ distributionProps.defaultRootObject = "index.html")
              <=> SsrExecutors = {}
        /\ SsrDefault
        /\ ("StaticViewerRequestFunction"
               \in AssociatedFunctions(distributionProps.defaultBehavior))
              <=> (SsrExecutors = {} /\ ~CustomDefaultViewerRequest)

\* A site with a function but no SSR engine whose caller brings a
\* viewer-request function: the bucket is the origin, without the rewrite.
C10_Witness ==
    /\ distributionProps.built
    /\ SsrExecutors = {}
    /\ gatsbyFunctions # <<>>
    /\ CustomDefaultViewerRequest
    /\ distributionProps.defaultBehavior.origin.kind = "S3Origin"
    /\ AssociatedFunctions(distributionProps.defaultBehavior)
          = {"customViewerRequestFn"}

\* The behaviour of the distribution under a path pattern.
BehaviorAt(pattern) ==
    distributionProps.additionalBehaviors[
        CHOOSE n \in DOMAIN distributionProps.additionalBehaviors :
            distributionProps.additionalBehaviors[n].key = pattern].value

\* The caller gave the page-data behaviour a viewer-request function.
CustomPageDataViewerRequest ==
    /\ cacheBehaviorOptions.pageData.set
    /\ cacheBehaviorOptions.pageData.hasFunctionAssociations
    /\ \E n \in DOMAIN cacheBehaviorOptions.pageData.functionAssociations :
          cacheBehaviorOptions.pageData.functionAssociations[n].eventType
            = "viewer-request"

\* C11: the distribution has a behaviour under "*page-data.json" exactly when
\* an SSR-engine executor is present; that behaviour has the origin of the
\* default behaviour and carries the page-data viewer-request function unless
\* the caller gave page-data a viewer-request function.
C11_PageDataBehaviorIffSsr ==
    distributionProps.built =>
        /\ HasProperty(distributionProps.additionalBehaviors, "*page-data.json")
              <=> SsrExecutors # {}
        /\ SsrExecutors # {} =>
              /\ BehaviorAt("*page-data.json").origin
                    = distributionProps.defaultBehavior.origin
              /\ ~CustomPageDataViewerRequest =>
                    "PageDataViewerRequestFunction"
                       \in AssociatedFunctions(BehaviorAt("*page-data.json"))

\* The executors that are not the SSR engine, by position.
AdditionalExecutors ==
    {i \in DOMAIN gatsbyFunctions : gatsbyFunctions[i].id # "ssr-engine"}

\* The backend of an executor: its function URL domain or its load balancer.
BackendOf(executor) ==
    IF executor.target = "LAMBDA"
    THEN [kind |-> "HttpOrigin", target |-> executor.lambdaFunctionUrlDomain]
    ELSE [kind |-> "LoadBalancerV2Origin", target |-> executor.loadBalancer]

OriginIs(behavior, backend) ==
    /\ behavior.origin.kind = backend.kind
    /\ behavior.origin.target = backend.target

\* C12: whatever cacheBehaviorOptions and distributionOptions hold, the
\* "/assets/*" behaviour has the bucket as its origin, the default behaviour
\* has the origin derived from the SSR executor (the bucket without one), and
\* the behaviour of each other executor has that executor's backend.
C12_OverridesKeepDerivedOrigin ==
    distributionProps.built =>
        /\ OriginIs(BehaviorAt("/assets/*"),
                    [kind |-> "S3Origin", target |-> "bucket"])
        /\ \A i \in SsrExecutors :
              OriginIs(distributionProps.defaultBehavior,
                       BackendOf(gatsbyFunctions[i]))
        /\ SsrExecutors = {} =>
              OriginIs(distributionProps.defaultBehavior,
                       [kind |-> "S3Origin", target |-> "bucket"])
        /\ \A i \in AdditionalExecutors :
              OriginIs(BehaviorAt(gatsbyFunctions[i].name),
                       BackendOf(gatsbyFunctions[i]))

\* C13: every executor that is not the SSR engine has a behaviour under its
\* name whose origin is its own backend, and no behaviour is keyed by the
\* name of the SSR engine.
C13_FunctionBehaviorPerExecutor ==
    distributionProps.built =>
        /\ \A i \in AdditionalExecutors :
              /\ HasProperty(distributionProps.additionalBehaviors,
                             gatsbyFunctions[i].name)
              /\ OriginIs(BehaviorAt(gatsbyFunctions[i].name),
                          BackendOf(gatsbyFunctions[i]))
        /\ \A i \in SsrExecutors :
              ~HasProperty(distributionProps.additionalBehaviors,
                           gatsbyFunctions[i].name)

(***************************************************************************)
(* Properties of the site (specification SpecSite).                        *)
(***************************************************************************)
\* The manifest functions by position, and the target each resolves to.
SiteFunctions == DOMAIN siteProps.functions

TargetOf(i) == ResolveOptions(siteProps, siteProps.functions[i]).target

\* The number of declared resources of a CloudFormation type.
ResourceCount(type) ==
    Cardinality({n \in DOMAIN site.resources : site.resources[n].type = type})

\* The executors made for a manifest function, by position in gatsbyFunctions.
ExecutorsOf(i) ==
    {n \in DOMAIN site.gatsbyFunctions :
        site.gatsbyFunctions[n].id = siteProps.functions[i].functionId}

ClusterMissing ==
    /\ siteProps.cluster = Undefined
    /\ \E i \in SiteFunctions : TargetOf(i) = "FARGATE"

C15_MissingClusterThrowsFirst ==
    (site.done /\ ClusterMissing) =>
        /\ site.threw # Undefined
        /\ site.resources = <<>>
        /\ site.lambdas = <<>>

\* A Lambda function ahead of the FARGATE one in the manifest: the error is
\* raised before that Lambda is declared.
C15_Witness ==
    /\ site.done
    /\ site.threw # Undefined
    /\ Len(siteProps.functions) = 2
    /\ TargetOf(1) = "LAMBDA"
    /\ TargetOf(2) = "FARGATE"
    /\ site.resources = <<>>

\* The Lambdas declared for a manifest function, by position in site.lambdas.
LambdasOf(i) ==
    {n \in DOMAIN site.lambdas :
        site.lambdas[n].id = "Function-" \o siteProps.functions[i].functionId}

\* C16: the Lambda of a LAMBDA function has the caller's timeout and
\* memorySize when they are given, and otherwise the defaults: 30 seconds and
\* 1024 MB for the SSR engine, 1 minute and 512 MB for another function.
C16_CallerTimeoutAndMemoryUsed ==
    (site.done /\ site.threw = Undefined) =>
        \A i \in SiteFunctions :
            TargetOf(i) = "LAMBDA" =>
                LET options == ResolveOptions(siteProps, siteProps.functions[i])
                    isSsrEngine == siteProps.functions[i].functionId = "ssr-engine"
                IN \A n \in LambdasOf(i) :
                      /\ site.lambdas[n].timeout =
                            IF options.timeout # None THEN options.timeout[1]
                            ELSE IF isSsrEngine THEN 30 ELSE 60
                      /\ site.lambdas[n].memorySize =
                            IF options.memorySize # None THEN options.memorySize[1]
                            ELSE IF isSsrEngine THEN 1024 ELSE 512

(***************************************************************************)
(* Properties of the distribution with disableCache and                    *)
(* disableSearchIndexing (specification SpecPolicy).                       *)
(***************************************************************************)
\* The behaviours the distribution derives: the default one and those under
\* "*page-data.json", "/assets/*" and the names of the functions.
DerivedBehaviors ==
    {policyDistribution.defaultBehavior}
      \cup {policyDistribution.additionalBehaviors[n].value :
              n \in {m \in DOMAIN policyDistribution.additionalBehaviors :
                       policyDistribution.additionalBehaviors[m].key # "/custom/*"}}

\* The behaviour has a response headers policy that sets the header.
Overrides(behavior, header, value) ==
    /\ behavior.responseHeadersPolicy # None
    /\ \E n \in DOMAIN behavior.responseHeadersPolicy[1].customHeaders :
          behavior.responseHeadersPolicy[1].customHeaders[n]
            = [header |-> header, value |-> value, override |-> TRUE]

\* C17: with disableCache, every derived behaviour (default, page-data,
\* "/assets/*", each function) has the caching-disabled cache policy and a
\* response headers policy that overrides Cache-Control with no-store,
\* whatever cacheBehaviorOptions holds.
C17_DisableCacheOnEveryBehavior ==
    (policyDistribution.built /\ policyProps.disableCache) =>
        \A b \in DerivedBehaviors :
            /\ b.cachePolicy = "CACHING_DISABLED"
            /\ Overrides(b, "Cache-Control", "no-store")

\* C18: with disableSearchIndexing, every derived behaviour has a response
\* headers policy that adds X-Robots-Tag: noindex.
C18_NoindexOnEveryBehavior ==
    (policyDistribution.built /\ policyProps.disableSearchIndexing) =>
        \A b \in DerivedBehaviors : Overrides(b, "X-Robots-Tag", "noindex")

(***************************************************************************)
(* Properties of the adapter (specification SpecAdapter).                  *)
(***************************************************************************)
\* Some function route names the function.
Referenced(fn) ==
    \E i \in DOMAIN routesManifest :
        /\ routesManifest[i].type = "function"
        /\ routesManifest[i].functionId = fn.functionId

\* .aws/functions/<functionId> exists and holds the bundled handler.
Packaged(fn) ==
    /\ fn.functionId \in adapterDir.functionDirs
    /\ <<fn.functionId, join(dirname(fn.pathToEntryPoint), HANDLER_JS)>>
          \in adapterDir.functions

\* Every required file of the function exists under the Gatsby directory.
Complete(fn) == Range(fn.requiredFiles) \subseteq gatsbyDir

\* C19: once adapt() is done, the function with id "ssr-engine" is in the
\* manifest and packaged under .aws/functions/ssr-engine even when no route
\* names it, and a function other than it that no function route names is
\* not packaged.
C19_SsrEngineRetainedWithoutRoute ==
    adaptPc.at = "done" =>
        \A i \in DOMAIN functionsManifest :
            IF functionsManifest[i].functionId = SSR_ENGINE_FUNCTION_ID
            THEN /\ functionsManifest[i] \in Range(manifest.functions)
                 /\ Packaged(functionsManifest[i])
            ELSE ~Referenced(functionsManifest[i]) =>
                     functionsManifest[i].functionId \notin adapterDir.functionDirs

\* Where the loop over fn.requiredFiles has ended: the required files in the
\* function directory are those that exist under the Gatsby directory, each
\* at its own relative path.
ExistingRequiredFilesCopied ==
    adaptPc.at \in {"finish", "threw"} =>
        \A f \in Range(CurrentFunction.requiredFiles) :
            f \in FilesOf(adapterDir, CurrentFunction.functionId) <=> f \in gatsbyDir

\* C20: prepareFunction never ends in an error, whichever required files are
\* missing; the missing ones are skipped and the existing ones copied to the
\* same relative path.
C20_CompletesWhateverIsMissing ==
    /\ adaptPc.at # "threw"
    /\ ExistingRequiredFilesCopied

\* C20 (amended): prepareFunction ends in an error only when the function's
\* entry point is itself missing; otherwise missing required files are
\* skipped and the existing ones copied to the same relative path.
C20_CompletesUnlessEntryPointMissing ==
    /\ adaptPc.at = "threw" => CurrentFunction.pathToEntryPoint \notin gatsbyDir
    /\ ExistingRequiredFilesCopied

\* adapt() is done and has packaged a function one of whose required files
\* is missing and another of whose required files is in the function
\* directory.
C20_Witness ==
    /\ adaptPc.at = "done"
    /\ \E i \in DOMAIN functionsManifest :
          /\ Referenced(functionsManifest[i])
          /\ ~Complete(functionsManifest[i])
          /\ Packaged(functionsManifest[i])
          /\ \E f \in Range(functionsManifest[i].requiredFiles) :
                f \in FilesOf(adapterDir, functionsManifest[i].functionId)

\* The functions that prepareFunction has returned for.
PreparedFunctions ==
    LET fns == functionsWithRoutes(routesManifest, functionsManifest)
    IN IF adaptPc.at \in {"bundle", "done"} THEN Range(fns)
       ELSE IF adaptPc.at \in {"ensureDir", "copy", "finish", "threw"}
            THEN {fns[k] : k \in 1..(adaptPc.fn - 1)}
            ELSE {}

\* The file of a function directory is on the allow-list.
Allowed(f) ==
    \E n \in DOMAIN ALLOWED_PATTERNS : minimatch(f, ALLOWED_PATTERNS[n])

\* C21: once prepareFunction has returned for a function, every file under
\* its directory matches an allow-list pattern or is the bundled
\* <entryPointDir>/handler.js, and handler.js and package.json are there.
C21_OnlyAllowedFilesRemain ==
    \A fn \in PreparedFunctions :
        LET handler == join(dirname(fn.pathToEntryPoint), HANDLER_JS)
            files == FilesOf(adapterDir, fn.functionId)
        IN /\ \A f \in files : Allowed(f) \/ f = handler
           /\ handler \in files
           /\ PACKAGE_JSON \in files

\* A prepared function whose copied entry point the cleanup removed and one
\* of whose required files the allow-list kept.
C21_Witness ==
    \E fn \in PreparedFunctions :
        /\ fn.pathToEntryPoint \in gatsbyDir
        /\ fn.pathToEntryPoint \notin FilesOf(adapterDir, fn.functionId)
        /\ \E f \in Range(fn.requiredFiles) : f \in FilesOf(adapterDir, fn.functionId)

\* C22: when prepareFunction fails, adapt() stops there (no later function
\* directory, no asset group), and the output directory does not hold a
\* manifest.json that lists the function next to its incomplete directory.
C22_FailureLeavesNothingWired ==
    adaptPc.at = "threw" =>
        /\ adapterDir.assets = {}
        /\ \A k \in (adaptPc.fn + 1)..Len(functionsWithRoutes(routesManifest, functionsManifest)) :
              functionsWithRoutes(routesManifest, functionsManifest)[k].functionId
                  \notin adapterDir.functionDirs
        /\ ~ /\ adapterDir.manifestJson
             /\ CurrentFunction \in Range(manifest.functions)
             /\ CurrentFunction.functionId \in adapterDir.functionDirs
             /\ ~Packaged(CurrentFunction)

(***************************************************************************)
(* Properties of the viewer-request functions (specification SpecViewer).  *)
(***************************************************************************)
\* The index.html rule as stated: the extension test looks at the last path
\* segment only.
ExpectedIndexRule(uri) ==
    IF EndsWith(uri, <<"/">>) THEN uri \o INDEX_HTML
    ELSE IF ~includes(SubSeq(uri, LastSlash(uri, Len(uri)) + 1, Len(uri)), <<".">>)
         THEN uri \o <<"/">> \o INDEX_HTML
         ELSE uri

\* C24: the static function appends "index.html" to a URI that ends with
\* "/", appends "/index.html" to any other URI whose last segment has no
\* extension (whatever the earlier segments hold), and adds nothing to a URI
\* that names a file with an extension.
C24_IndexRuleOnLastSegment ==
    (viewerRequest.handled /\ viewerRequest.fn = "static") =>
        viewerRequest.out = TrimAssetsPrefix(ExpectedIndexRule(viewerRequest.uri))

\* C25: the static function strips the asset prefix from a URI under
\* /assets/ only, and the rewritten URI begins with "/".
C25_StripsOnlyUnderAssets ==
    (viewerRequest.handled /\ viewerRequest.fn = "static") =>
        /\ viewerRequest.out =
              IF StartsWith(IndexRule(viewerRequest.uri), ASSETS_PREFIX \o <<"/">>)
              THEN SubSeq(IndexRule(viewerRequest.uri), Len(ASSETS_PREFIX) + 1,
                          Len(IndexRule(viewerRequest.uri)))
              ELSE IndexRule(viewerRequest.uri)
        /\ viewerRequest.out[1] = "/"

\* C26: the page-data function removes "/assets" when the URI starts with
\* it and forwards any other URI unchanged.
C26_StripsLeadingAssetsOnly ==
    (viewerRequest.handled /\ viewerRequest.fn = "pageData") =>
        viewerRequest.out =
            IF StartsWith(viewerRequest.uri, ASSETS_PREFIX)
            THEN SubSeq(viewerRequest.uri, Len(ASSETS_PREFIX) + 1, Len(viewerRequest.uri))
            ELSE viewerRequest.uri

(***************************************************************************)
(* Properties of the deploy command (specification SpecDeploy).            *)
(***************************************************************************)
RouteKeys == Range(routeKeysOf(manifestJson))

\* deploy() has failed and no request is in flight any more.
FailedAndQuiet ==
    /\ deployState.at = "failed"
    /\ \A i \in DOMAIN deployState.upload : deployState.upload[i] # "inflight"
    /\ \A j \in DOMAIN deployState.del : deployState.del[j] # "inflight"

\* C23: when deploy() has failed, every upload and every delete other than
\* the failed ones has still been carried out: no upload was left unstarted
\* and every key without a route is gone or its delete failed.
C23_FailureDoesNotAbortOthers ==
    FailedAndQuiet =>
        /\ \A i \in DOMAIN deployState.upload : deployState.upload[i] \in {"done", "failed"}
        /\ \A key \in s3Bucket \ RouteKeys :
              \E j \in DOMAIN deployState.del :
                  deployState.toDelete[j] = key /\ deployState.del[j] = "failed"

\* C27: when deploy() completes, the keys of the bucket are the object keys
\* of the manifest's static routes.
C27_BucketEqualsRouteKeys ==
    deployState.at = "done" => s3Bucket = RouteKeys

\* C30: a delete is issued only when every upload has succeeded, no key of
\* a static route is ever to be deleted, and after a failed upload nothing
\* is deleted.
C30_DeletesAfterUploadsOnly ==
    /\ (\E j \in DOMAIN deployState.del : deployState.del[j] # "pending") =>
           \A i \in DOMAIN deployState.upload : deployState.upload[i] = "done"
    /\ \A j \in DOMAIN deployState.toDelete : deployState.toDelete[j] \notin RouteKeys
    /\ (\E i \in DOMAIN deployState.upload : deployState.upload[i] = "failed") =>
           deployState.del = <<>>

\* More uploads than pMap keeps in flight have all succeeded and a key
\* without a route has been deleted.
C30_Witness ==
    /\ Len(deployState.upload) > MaxInFlight
    /\ \A i \in DOMAIN deployState.upload : deployState.upload[i] = "done"
    /\ \E j \in DOMAIN deployState.del : deployState.del[j] = "done"

(***************************************************************************)
(* The asset groups as bucket deployments (specification Spec).            *)
(***************************************************************************)
\* The object keys that the bucket deployment of an asset group writes.
ObjectKeysOf(assetGroup) ==
    {assetGroup.assets[n].objectKey : n \in DOMAIN assetGroup.assets}

\* C29: no object key belongs to two asset groups of the manifest.
C29_ObjectKeyInOneGroup ==
    manifest.built =>
        \A g, h \in DOMAIN manifest.assetGroups :
            g # h => ObjectKeysOf(manifest.assetGroups[g])
                       \cap ObjectKeysOf(manifest.assetGroups[h]) = {}

(***************************************************************************)
(* The two phases together (specification SpecAdapter).                    *)
(***************************************************************************)
\* C28: every function for which GatsbySite declares an executor has a
\* directory under .aws/functions that the adapter prepared in this build.
C28_ExecutorsHavePreparedCode ==
    site.done =>
        \A n \in DOMAIN site.gatsbyFunctions :
            site.gatsbyFunctions[n].id \in {fn.functionId : fn \in PreparedFunctions}

====
